---- MODULE Spec2Model ----
(***************************************************************************)
(* MeshBeat: chunked audio transfer, playback scheduling and clock sync.   *)
(*                                                                         *)
(* Several specifications share this module:                               *)
(*   Spec        the guest's message handler (PeerManager.handleMessage,   *)
(*               processReceivedAudio) fed by a host that streams a file   *)
(*               and sends playback commands over a reordering channel;    *)
(*   SpecChunk   chunkArrayBuffer / reassembleChunks as pure functions;    *)
(*   SpecPlay    broadcastPlay and AudioEngine.schedulePlay on two devices *)
(*               with their own wall clocks and page epochs;               *)
(*   SpecOffset  SyncEngine.calculateOffset as a pure function;            *)
(*   SpecRing, SpecSync, SpecRetry   the sample ring, the probe timers and *)
(*               the retry wrapper;                                        *)
(*   SpecSession, SpecLink, SpecLinkFair   the guest on an ordered link,   *)
(*               with payloads in succession, the link closing;            *)
(*   SpecJoin, SpecOverlap, SpecReload   the host streaming to             *)
(*               connections that open, the stream yielding to its timer,  *)
(*               the host's player controls used meanwhile;                *)
(*   SpecMaster, SpecMasterFair   the master flag and the playback         *)
(*               commands between the host and two guests;                 *)
(*   SpecDestroy a guest being destroyed;                                  *)
(*   SpecGuest, SpecGuestSync   initAsGuest attempt by attempt, and the    *)
(*               clock sync of a link that closes.                         *)
(*                                                                         *)
(* Times are integers in milliseconds.  Playback positions are kept in     *)
(* milliseconds too (the code keeps seconds = ms / 1000).  A byte buffer   *)
(* is a sequence of naturals.                                              *)
(***************************************************************************)
EXTENDS Integers, Sequences, FiniteSets, TLC

VARIABLES
    \* ---- Spec: host side
    streams,              \* payloads the host has streamed so far, in order
    hostPlayback,         \* the host's own store.playbackState
    net,                  \* messages in flight from the host to the guest
    extras,               \* playback commands sent plus deliveries duplicated
    \* ---- Spec: guest side (PeerManager, store, AudioEngine)
    audioChunks,          \* PeerManager.audioChunks.get(host): slots or NoSession
    audioMeta,            \* PeerManager.audioMeta or Null
    pendingPlaybackState, \* PeerManager.pendingPlaybackState or Null
    playbackState,        \* store.playbackState
    audioFile,            \* store.audioFile or Null
    isReady,              \* AudioEngine.isReady
    player,               \* what the Tone player was last told
    lastPlay,             \* the last audioEngine.schedulePlay call, or Null
    decoding,             \* processReceivedAudio calls suspended in the decode
    \* ---- Spec: history
    trace,                \* the values store.playbackState went through
    arrivals,             \* chunk indexes handled since the last metadata
    handoffs,             \* reassemblies since the last metadata
    \* ---- SpecChunk
    tBuffer, tChunks, tResult, tPc,
    \* ---- SpecPlay
    realTime, pageEpoch, wallSkew, clockOffset, duration, playNet, sched,
    \* ---- SpecOffset
    oStamps, oSample, oPc,
    \* ---- SpecRing (and SpecSync): SyncEngine
    samples,              \* SyncEngine.samples, oldest first
    estimate,             \* what getAverageResult last returned, or Null
    shifted,              \* what the last addSample shifted out, or Null
    \* ---- SpecSync: SyncEngine on the guest, the host answering
    sNow,                 \* the time, ms (Date.now() on both devices)
    intervalId,           \* SyncEngine.intervalId or Null
    intervals,            \* active setInterval timers: [id, due]
    timeouts,             \* pending setTimeout timers: [probe, due]
    listeners,            \* handleResponse closures on the connection's
                          \* 'data' event, in registration order
    sReq,                 \* SYNC_REQUEST messages in flight
    sResp,                \* SYNC_RESPONSE messages in flight
    probes,               \* performSync calls so far
    starts,               \* startSync calls so far
    stops,                \* stopSync calls by the caller so far
    running,              \* a startSync with no stopSync after it
    sLog,                 \* per response delivered: who handled it
    \* ---- SpecRetry: PeerManager.withRetry
    rPc,                  \* where the withRetry call is
    attempt,              \* the loop variable
    lastError,            \* lastError, or Null
    outcome,              \* how the call settled: value or error, or Null
    rLog,                 \* operations started, settled and delays, in order
    \* ---- SpecSession: the guest's link to the host
    connected,            \* PeerManager.connections has the host's entry
    closes,               \* 'close' events on the link so far
    superseded,           \* the slots the last AUDIO_META replaced, or Null
    rejections,           \* decodes rejected so far
    \* ---- SpecJoin: the host (PeerManager, store, host page)
    hostFile,             \* the host's store.audioFile, or Null
    hConnections,         \* the host's PeerManager.connections, in Map order
    connectedPeers,       \* the host's store.connectedPeers (the peer table)
    calls,                \* the streamAudioToPeer calls so far
    timers,               \* calls waiting on their 10 ms timer, first due first
    wire,                 \* per link, every message the host sent on it
    \* ---- SpecMaster: the host and two guests, each with its own store,
    \* PeerManager and AudioEngine
    isMaster,             \* store.isMaster
    mPlayback,            \* store.playbackState
    mLoaded,              \* store.audioFile is set and AudioEngine.isReady
    mPending,             \* PeerManager.pendingPlaybackState or Null
    mEngine,              \* the last call made on the AudioEngine, or Null
    conns,                \* PeerManager.connections (peer ids)
    table,                \* the host's store.connectedPeers (peer ids)
    chan,                 \* messages in flight, per sender and receiver
    sent,                 \* send operations so far
    hostOpens,            \* 'open' events of the host's peer so far
    \* ---- SpecGuest: initAsGuest on the guest
    status,               \* store.status
    tries                 \* one record per initAsGuestOnce call

mainVars == <<streams, hostPlayback, net, extras, audioChunks,
              audioMeta, pendingPlaybackState, playbackState, audioFile,
              isReady, player, lastPlay, decoding, trace, arrivals,
              handoffs>>
chunkVars == <<tBuffer, tChunks, tResult, tPc>>
playVars == <<realTime, pageEpoch, wallSkew, clockOffset, duration, playNet, sched>>
offsetVars == <<oStamps, oSample, oPc>>
ringVars == <<samples, estimate, shifted>>
syncVars == <<sNow, intervalId, intervals, timeouts, listeners, sReq, sResp,
              probes, starts, stops, running, sLog>>
retryVars == <<rPc, attempt, lastError, outcome, rLog>>
linkVars == <<connected, closes, superseded, rejections>>
joinVars == <<hostFile, hConnections, connectedPeers, calls, timers, wire>>
masterVars == <<isMaster, mPlayback, mLoaded, mPending, mEngine, conns, table,
                chan, sent, hostOpens>>
initVars == <<status, tries>>
lastVars == <<joinVars, masterVars, initVars>>
moreVars == <<ringVars, syncVars, retryVars, linkVars, lastVars>>
firstVars == <<mainVars, chunkVars, playVars, offsetVars>>
otherVarsOfRing == <<firstVars, syncVars, retryVars, linkVars, lastVars>>
otherVarsOfSync == <<firstVars, retryVars, linkVars, lastVars>>
otherVarsOfRetry == <<firstVars, ringVars, syncVars, linkVars, lastVars>>
vars == <<mainVars, chunkVars, playVars, offsetVars, moreVars>>

Null == <<>>                      \* null / no map entry; a value v is <<v>>
Some(v) == <<v>>

Min(a, b) == IF a < b THEN a ELSE b
Max(a, b) == IF a > b THEN a ELSE b
Abs(x) == IF x < 0 THEN -x ELSE x

(***************************************************************************)
(* Bounds.  CHUNK_SIZE is the 16 KiB of protocol.ts scaled down: every     *)
(* property below is about positions relative to the chunk size.           *)
(***************************************************************************)
CHUNK_SIZE == 2
MaxByte == 1
MaxLen == 2 * CHUNK_SIZE + 1
Bytes == 0..MaxByte

(***************************************************************************)
(* audio-engine: chunkArrayBuffer and reassembleChunks.                    *)
(* A JavaScript array with holes is a sequence whose empty slots hold      *)
(* undefined; slot i of the code is element i+1 here.                      *)
(***************************************************************************)
undefined == <<-1>>

RECURSIVE chunkFrom(_, _)
chunkFrom(buffer, offset) ==
    IF offset < Len(buffer)
    THEN LET chunkSize == Min(CHUNK_SIZE, Len(buffer) - offset)
         IN  <<SubSeq(buffer, offset + 1, offset + chunkSize)>>
                 \o chunkFrom(buffer, offset + chunkSize)
    ELSE <<>>

\* a chunker that computes the chunk count by floor division: the final,
\* shorter chunk is lost
chunkArrayBuffer_DropTail(buffer) ==
    SelectSeq(chunkFrom(buffer, 0), LAMBDA chunk : Len(chunk) = CHUNK_SIZE)

chunkArrayBuffer(buffer) == chunkFrom(buffer, 0)

\* a validity test that is off by one: a one-byte chunk is taken as empty
validChunks_OffByOne(chunks) ==
    SelectSeq(chunks, LAMBDA chunk : chunk # undefined /\ Len(chunk) > 1)

\* the chunks reassembleChunks keeps: neither a hole nor an empty array
validChunks(chunks) ==
    SelectSeq(chunks, LAMBDA chunk : chunk # undefined /\ Len(chunk) > 0)

RECURSIVE joinChunks(_)
joinChunks(valid) ==
    IF valid = <<>> THEN <<>> ELSE Head(valid) \o joinChunks(Tail(valid))

NoValidChunks == [ok |-> FALSE, error |-> "No valid audio chunks received"]

\* a reassembly that fills a hole with a chunk of zero bytes
reassembleChunks_ZeroFill(chunks) ==
    IF Len(validChunks(chunks)) = 0
    THEN NoValidChunks
    ELSE [ok |-> TRUE,
          buffer |-> joinChunks([i \in 1..Len(chunks) |->
                        IF chunks[i] = undefined
                        THEN [k \in 1..CHUNK_SIZE |-> 0] ELSE chunks[i]])]

reassembleChunks(chunks) ==
    IF Len(validChunks(chunks)) = 0
    THEN NoValidChunks
    ELSE [ok |-> TRUE, buffer |-> joinChunks(validChunks(chunks))]

(***************************************************************************)
(* sync-engine: calculateOffset.  The offset is a half-integer: it is kept *)
(* as the exact fraction num/den with den in {1, 2}.                       *)
(***************************************************************************)
Half(x) == IF x % 2 = 0 THEN [num |-> x \div 2, den |-> 1]
                        ELSE [num |-> x, den |-> 2]
Whole(x) == [num |-> x, den |-> 1]

OFFSET_LIMIT == 10000

\* the offset with the sign of its second term slipped
calculateOffset_SignSlip(t1, t2, t3, t4) ==
    LET roundTripTime == (t4 - t1) - (t3 - t2)
        twiceOffset == (t2 - t1) + (t4 - t3)
        sanitizedOffset == IF Abs(twiceOffset) > 2 * OFFSET_LIMIT
                           THEN Whole(0) ELSE Half(twiceOffset)
        sanitizedRTT == IF roundTripTime < 0 THEN Abs(roundTripTime)
                                             ELSE roundTripTime
    IN  [roundTripTime |-> sanitizedRTT, clockOffset |-> sanitizedOffset]

\* the round trip without the responder's processing time taken off
calculateOffset_RawRtt(t1, t2, t3, t4) ==
    LET roundTripTime == t4 - t1
        twiceOffset == (t2 - t1) + (t3 - t4)
        sanitizedOffset == IF Abs(twiceOffset) > 2 * OFFSET_LIMIT
                           THEN Whole(0) ELSE Half(twiceOffset)
        sanitizedRTT == IF roundTripTime < 0 THEN Abs(roundTripTime)
                                             ELSE roundTripTime
    IN  [roundTripTime |-> sanitizedRTT, clockOffset |-> sanitizedOffset]

\* the sample handed back as computed, with no sanity policy applied
calculateOffset_NoSanity(t1, t2, t3, t4) ==
    [roundTripTime |-> (t4 - t1) - (t3 - t2),
     clockOffset |-> Half((t2 - t1) + (t3 - t4))]

calculateOffset(t1, t2, t3, t4) ==
    LET roundTripTime == (t4 - t1) - (t3 - t2)
        twiceOffset == (t2 - t1) + (t3 - t4)
        sanitizedOffset == IF Abs(twiceOffset) > 2 * OFFSET_LIMIT
                           THEN Whole(0) ELSE Half(twiceOffset)
        sanitizedRTT == IF roundTripTime < 0 THEN Abs(roundTripTime)
                                             ELSE roundTripTime
    IN  [roundTripTime |-> sanitizedRTT, clockOffset |-> sanitizedOffset]

(***************************************************************************)
(* Spec: the guest's handler and the host that feeds it.                   *)
(***************************************************************************)
MaxExtra == 1
FileSizes == {CHUNK_SIZE, MaxLen}
Seeks == {0, 7}

\* the bytes of the n-byte file the host streams as its t-th stream
Payload(t, n) == [i \in 1..n |-> 16 * t + i]

\* chunkArray.push(data): the chunk lands where it arrives, not at its index
SetSlot_Append(chunkArray, chunkIndex, data) == Append(chunkArray, data)

\* chunkArray[chunkIndex] = data, on a JavaScript array (holes up to the index)
SetSlot(chunkArray, chunkIndex, data) ==
    [i \in 1..Max(Len(chunkArray), chunkIndex + 1) |->
        IF i = chunkIndex + 1 THEN data
        ELSE IF i <= Len(chunkArray) THEN chunkArray[i] ELSE undefined]

\* chunkArray.filter(c => c !== undefined).length
receivedCount(chunkArray) ==
    Len(SelectSeq(chunkArray, LAMBDA c : c # undefined))

\* store.setPlaybackState, and the history of the values it went through
Push(tr, state) == IF tr[Len(tr)] = state THEN tr ELSE Append(tr, state)
setPlaybackState(state) ==
    /\ playbackState' = state
    /\ trace' = Push(trace, state)

otherVarsOfMain == <<chunkVars, playVars, offsetVars, moreVars>>

MainIdle ==
    /\ streams = <<>>
    /\ net = {}
    /\ extras = 0
    /\ audioChunks = Null
    /\ audioMeta = Null
    /\ pendingPlaybackState = Null
    /\ playbackState = "stopped"
    /\ audioFile = Null
    /\ isReady = FALSE
    /\ player = "none"
    /\ lastPlay = Null
    /\ decoding = <<>>
    /\ trace = <<"stopped">>
    /\ arrivals = <<>>
    /\ handoffs = <<>>

NotCalled == [called |-> FALSE, at |-> 0, scheduledTime |-> 0,
              seekPosition |-> 0, clockOffset |-> 0, now |-> 0,
              started |-> FALSE, delay |-> 0, offset |-> 0]

ChunkIdle ==
    tBuffer = <<>> /\ tChunks = <<>> /\ tResult = NoValidChunks /\ tPc = "off"
PlayIdle ==
    /\ realTime = 0 /\ pageEpoch = [d \in {"M", "G"} |-> 0]
    /\ wallSkew = [d \in {"M", "G"} |-> 0]
    /\ clockOffset = 0 /\ duration = 0 /\ playNet = {}
    /\ sched = [d \in {"M", "G"} |-> NotCalled]
OffsetIdle ==
    oStamps = <<0, 0, 0, 0>> /\ oSample = calculateOffset(0, 0, 0, 0)
        /\ oPc = "off"

RingIdle ==
    samples = <<>> /\ estimate = Null /\ shifted = Null
FirstIdle ==
    /\ MainIdle /\ hostPlayback = "stopped"
    /\ ChunkIdle /\ PlayIdle /\ OffsetIdle
SyncIdle ==
    /\ sNow = 0 /\ intervalId = Null /\ intervals = {} /\ timeouts = {}
    /\ listeners = <<>> /\ sReq = {} /\ sResp = {}
    /\ probes = 0 /\ starts = 0 /\ stops = 0 /\ running = FALSE
    /\ sLog = <<>>
RetryIdle ==
    /\ rPc = "idle" /\ attempt = 0 /\ lastError = Null /\ outcome = Null
    /\ rLog = <<>>
LinkIdle ==
    connected = TRUE /\ closes = 0 /\ superseded = Null /\ rejections = 0
Links == {"g1"}
JoinIdle ==
    /\ hostFile = Null /\ hConnections = <<>> /\ connectedPeers = {}
    /\ calls = <<>> /\ timers = <<>> /\ wire = [l \in Links |-> <<>>]
Guests == {"g1", "g2"}
Participants == {"host"} \cup Guests
Pairs == {<<"host", g>> : g \in Guests} \cup {<<g, "host">> : g \in Guests}
MasterIdle ==
    /\ isMaster = [p \in Participants |-> FALSE]
    /\ mPlayback = [p \in Participants |-> "stopped"]
    /\ mLoaded = [p \in Participants |-> FALSE]
    /\ mPending = [p \in Participants |-> Null]
    /\ mEngine = [p \in Participants |-> Null]
    /\ conns = [p \in Participants |-> {}]
    /\ table = {}
    /\ chan = [pair \in Pairs |-> <<>>]
    /\ sent = 0
    /\ hostOpens = 0
InitIdle == status = "disconnected" /\ tries = <<>>
LastIdle == JoinIdle /\ MasterIdle /\ InitIdle
MoreIdle == RingIdle /\ SyncIdle /\ RetryIdle /\ LinkIdle /\ LastIdle

Init ==
    /\ MainIdle
    /\ hostPlayback \in {"stopped", "playing"}
    /\ ChunkIdle /\ PlayIdle /\ OffsetIdle /\ MoreIdle

\* PeerManager.streamAudioToPeer: metadata, every chunk, the sentinel; on a
\* join (handleIncomingConnection) the playback snapshot follows.
StreamMessages(t, buffer, join) ==
    LET chunks == chunkArrayBuffer(buffer)
        base == t * (MaxLen + 3)
    IN  {[seq |-> base, type |-> "AUDIO_META", name |-> t,
          size |-> Len(buffer), totalChunks |-> Len(chunks)]}
        \cup {[seq |-> base + 1 + i, type |-> "AUDIO_CHUNK", chunkIndex |-> i,
               totalChunks |-> Len(chunks), data |-> chunks[i + 1]]
              : i \in 0..(Len(chunks) - 1)}
        \cup {[seq |-> base + 1 + Len(chunks), type |-> "AUDIO_COMPLETE"]}
        \cup (IF join
              THEN {[seq |-> base + 2 + Len(chunks), type |-> "PLAYBACK_STATE",
                     isPlaying |-> hostPlayback = "playing", seekPosition |-> 0]}
              ELSE {})

StreamAudio(n, join) ==
    /\ streams = <<>>
    /\ LET t == Len(streams) + 1
           buffer == Payload(t, n)
       IN  /\ streams' = Append(streams, buffer)
           /\ net' = net \cup StreamMessages(t, buffer, join)
    /\ UNCHANGED <<hostPlayback, extras, audioChunks, audioMeta,
                   pendingPlaybackState, playbackState, audioFile, isReady,
                   player, lastPlay, decoding, trace, arrivals, handoffs>>
    /\ UNCHANGED otherVarsOfMain

\* PeerManager.broadcastPlay / broadcastPause / broadcastStop on the host
ControlMessage(kind, seek) ==
    IF kind = "SCHEDULE_PLAY"
    THEN [seq |-> -(extras + 1), type |-> kind, seekPosition |-> seek]
    ELSE [seq |-> -(extras + 1), type |-> kind]

HostControl(kind, seek) ==
    /\ extras < MaxExtra
    /\ streams # <<>>
    /\ kind # "SCHEDULE_PLAY" => seek = 0
    /\ extras' = extras + 1
    /\ net' = net \cup {ControlMessage(kind, seek)}
    /\ hostPlayback' = CASE kind = "SCHEDULE_PLAY" -> "playing"
                         [] kind = "SCHEDULE_PAUSE" -> "paused"
                         [] kind = "SCHEDULE_STOP" -> "stopped"
    /\ UNCHANGED <<streams, audioChunks, audioMeta,
                   pendingPlaybackState, playbackState, audioFile, isReady,
                   player, lastPlay, decoding, trace, arrivals, handoffs>>
    /\ UNCHANGED otherVarsOfMain

hostVarsOfMain == <<streams, hostPlayback>>

\* AudioEngine.schedulePlay as the guest's handler sees it: without a ready
\* player nothing happens; with one, the clocks decide whether the player is
\* started (on time, or late within the duration) or not (late past the end).
schedulePlayOutcomes == IF player = "none" \/ ~isReady
                        THEN {player} ELSE {"started", player}

\* PeerManager.processReceivedAudio up to its await of the decode
ProcessReceivedAudio(chunkArray, via) ==
    LET result == reassembleChunks(chunkArray)
    IN  IF result.ok
        THEN /\ decoding' = Append(decoding, [buffer |-> result.buffer,
                                              savedMeta |-> audioMeta[1]])
             /\ handoffs' = Append(handoffs, [via |-> via,
                                              buffer |-> result.buffer,
                                              slots |-> chunkArray,
                                              meta |-> audioMeta[1]])
             /\ audioChunks' = Some(chunkArray)
             /\ UNCHANGED <<audioMeta, playbackState, trace>>
        ELSE \* reassembleChunks threw: catch, then finally
             /\ setPlaybackState("stopped")
             /\ audioChunks' = Null
             /\ audioMeta' = Null
             /\ UNCHANGED <<decoding, handoffs>>

\* the metadata replaced but the chunk storage of an open session kept
HandleMeta_KeepsSlots(m) ==
    /\ audioMeta' = Some([name |-> m.name, size |-> m.size,
                          totalChunks |-> m.totalChunks])
    /\ audioChunks' = IF audioChunks # Null THEN audioChunks ELSE Some(<<>>)
    /\ setPlaybackState("loading")
    /\ arrivals' = <<>>
    /\ handoffs' = <<>>
    /\ UNCHANGED <<pendingPlaybackState, audioFile, isReady, player, lastPlay,
                   decoding>>

\* case MessageType.AUDIO_META
HandleMeta(m) ==
    /\ audioMeta' = Some([name |-> m.name, size |-> m.size,
                          totalChunks |-> m.totalChunks])
    /\ audioChunks' = Some(<<>>)
    /\ setPlaybackState("loading")
    /\ arrivals' = <<>>
    /\ handoffs' = <<>>
    /\ UNCHANGED <<pendingPlaybackState, audioFile, isReady, player, lastPlay, decoding>>

\* case MessageType.AUDIO_CHUNK
HandleChunk(m) ==
    IF audioChunks # Null /\ audioMeta # Null
    THEN LET chunkArray == SetSlot(audioChunks[1], m.chunkIndex, m.data)
         IN  /\ arrivals' = Append(arrivals, m.chunkIndex)
             /\ IF receivedCount(chunkArray) = audioMeta[1].totalChunks
                THEN ProcessReceivedAudio(chunkArray, "threshold")
                ELSE /\ audioChunks' = Some(chunkArray)
                     /\ UNCHANGED <<audioMeta, playbackState, trace,
                                    decoding, handoffs>>
             /\ UNCHANGED <<pendingPlaybackState, audioFile, isReady, player, lastPlay>>
    ELSE UNCHANGED <<audioChunks, audioMeta, pendingPlaybackState,
                     playbackState, audioFile, isReady, player, lastPlay, decoding,
                     trace, arrivals, handoffs>>

\* case MessageType.AUDIO_COMPLETE
HandleComplete(m) ==
    IF audioChunks = Null \/ audioMeta = Null
    THEN UNCHANGED <<audioChunks, audioMeta, pendingPlaybackState,
                     playbackState, audioFile, isReady, player, lastPlay, decoding,
                     trace, arrivals, handoffs>>
    ELSE /\ IF receivedCount(audioChunks[1]) > 0
            THEN ProcessReceivedAudio(audioChunks[1], "sentinel")
            ELSE /\ setPlaybackState("stopped")
                 /\ UNCHANGED <<audioChunks, audioMeta, decoding, handoffs>>
         /\ UNCHANGED <<pendingPlaybackState, audioFile, isReady, player, lastPlay,
                        arrivals>>

\* the queued state with the seek position lost
queuedPlay_SeekZero(m) == [isPlaying |-> TRUE, seekPosition |-> 0]

\* the PlaybackState that SCHEDULE_PLAY queues when audio is not ready
queuedPlay(m) == [isPlaying |-> TRUE, seekPosition |-> m.seekPosition]

\* the arguments of a schedulePlay call: where the deadline comes from, and
\* the seek position
PlayCall(scheduledTime, seekPosition) ==
    Some([scheduledTime |-> scheduledTime, seekPosition |-> seekPosition])

\* case MessageType.SCHEDULE_PLAY
HandlePlay(m) ==
    /\ IF ~isReady
       THEN /\ pendingPlaybackState' = Some(queuedPlay(m))
            /\ UNCHANGED <<player, lastPlay, playbackState, trace>>
       ELSE /\ player' \in schedulePlayOutcomes
            /\ lastPlay' = PlayCall("message.startTime", m.seekPosition)
            /\ setPlaybackState("playing")
            /\ UNCHANGED pendingPlaybackState
    /\ UNCHANGED <<audioChunks, audioMeta, audioFile, isReady, decoding,
                   arrivals, handoffs>>

\* case MessageType.SCHEDULE_PAUSE / SCHEDULE_STOP: player.stop() if a player
\* exists, then the store
HandlePauseStop(m) ==
    /\ player' = IF player = "none" THEN "none" ELSE "stopped"
    /\ setPlaybackState(IF m.type = "SCHEDULE_PAUSE" THEN "paused" ELSE "stopped")
    /\ UNCHANGED <<audioChunks, audioMeta, pendingPlaybackState, audioFile,
                   isReady, lastPlay, decoding, arrivals, handoffs>>

\* case MessageType.PLAYBACK_STATE
HandleState(m) ==
    /\ IF ~isReady
       THEN /\ pendingPlaybackState' =
                   Some([isPlaying |-> m.isPlaying, seekPosition |-> m.seekPosition])
            /\ UNCHANGED <<player, lastPlay, playbackState, trace>>
       ELSE IF m.isPlaying
       THEN /\ player' \in schedulePlayOutcomes
            /\ lastPlay' = PlayCall("message.startTime", m.seekPosition)
            /\ setPlaybackState("playing")
            /\ UNCHANGED pendingPlaybackState
       ELSE /\ setPlaybackState("stopped")
            /\ UNCHANGED <<player, lastPlay, pendingPlaybackState>>
    /\ UNCHANGED <<audioChunks, audioMeta, audioFile, isReady, decoding,
                   arrivals, handoffs>>

\* PeerManager.handleMessage
HandleMessage(m) ==
    CASE m.type = "AUDIO_META" -> HandleMeta(m)
      [] m.type = "AUDIO_CHUNK" -> HandleChunk(m)
      [] m.type = "AUDIO_COMPLETE" -> HandleComplete(m)
      [] m.type = "SCHEDULE_PLAY" -> HandlePlay(m)
      [] m.type \in {"SCHEDULE_PAUSE", "SCHEDULE_STOP"} -> HandlePauseStop(m)
      [] m.type = "PLAYBACK_STATE" -> HandleState(m)

\* the channel hands a message to the guest's 'data' handler
Deliver(m) ==
    /\ m \in net
    /\ HandleMessage(m)
    /\ net' = net \ {m}
    /\ UNCHANGED <<hostVarsOfMain, extras>>
    /\ UNCHANGED otherVarsOfMain

\* ... and may hand it over a second time
DeliverDuplicate(m) ==
    /\ m \in net
    /\ extras < MaxExtra
    /\ HandleMessage(m)
    /\ extras' = extras + 1
    /\ UNCHANGED <<hostVarsOfMain, net>>
    /\ UNCHANGED otherVarsOfMain

RemoveAt(seq, i) == SubSeq(seq, 1, i - 1) \o SubSeq(seq, i + 1, Len(seq))

\* processReceivedAudio after its await: the decode of decoding[i] resolved
\* (loadFromArrayBuffer made the player and set isReady); the queued playback
\* state, if any, is applied; finally the session is dropped.
DecodeResolved(i) ==
    /\ i \in 1..Len(decoding)
    /\ LET job == decoding[i]
           pending == pendingPlaybackState
           plays == pending # Null /\ pending[1].isPlaying
       IN  /\ isReady' = TRUE
           /\ audioFile' = Some([name |-> job.savedMeta.name,
                                 size |-> job.savedMeta.size,
                                 buffer |-> job.buffer])
           /\ pendingPlaybackState' = Null
           /\ playbackState' = IF plays THEN "playing" ELSE "stopped"
           /\ trace' = IF plays THEN Push(Push(trace, "stopped"), "playing")
                                ELSE Push(trace, "stopped")
           /\ player' \in IF plays THEN {"started", "stopped"} ELSE {"stopped"}
           /\ lastPlay' = IF plays
                          THEN PlayCall("performance.now() + SCHEDULE_BUFFER",
                                        pending[1].seekPosition)
                          ELSE lastPlay
    /\ decoding' = RemoveAt(decoding, i)
    /\ audioChunks' = Null
    /\ audioMeta' = Null
    /\ UNCHANGED <<hostVarsOfMain, net, extras, arrivals, handoffs>>
    /\ UNCHANGED otherVarsOfMain

\* a rejection whose finally block leaves the session in place
CatchThenFinally_KeepsSession(i) ==
    /\ i \in 1..Len(decoding)
    /\ setPlaybackState("stopped")
    /\ decoding' = RemoveAt(decoding, i)
    /\ UNCHANGED <<audioChunks, audioMeta>>
    /\ UNCHANGED <<pendingPlaybackState, audioFile, isReady, player, lastPlay>>
    /\ UNCHANGED <<hostVarsOfMain, net, extras, arrivals, handoffs>>

\* ... or rejected: catch, then finally
CatchThenFinally(i) ==
    /\ i \in 1..Len(decoding)
    /\ setPlaybackState("stopped")
    /\ decoding' = RemoveAt(decoding, i)
    /\ audioChunks' = Null
    /\ audioMeta' = Null
    /\ UNCHANGED <<pendingPlaybackState, audioFile, isReady, player, lastPlay>>
    /\ UNCHANGED <<hostVarsOfMain, net, extras, arrivals, handoffs>>

DecodeRejected(i) ==
    /\ CatchThenFinally(i)
    /\ UNCHANGED otherVarsOfMain

Next ==
    \/ \E n \in FileSizes, join \in BOOLEAN : StreamAudio(n, join)
    \/ \E kind \in {"SCHEDULE_PLAY", "SCHEDULE_PAUSE", "SCHEDULE_STOP"},
          seek \in Seeks : HostControl(kind, seek)
    \/ \E m \in net : Deliver(m)
    \/ \E m \in net : DeliverDuplicate(m)
    \/ \E i \in 1..Len(decoding) : DecodeResolved(i)
    \/ \E i \in 1..Len(decoding) : DecodeRejected(i)

Spec == Init /\ [][Next]_vars

(***************************************************************************)
(* SpecChunk: chunkArrayBuffer then reassembleChunks on every buffer of    *)
(* at most MaxLen bytes.                                                   *)
(***************************************************************************)
AllBuffers == UNION {[1..n -> Bytes] : n \in 0..MaxLen}

InitChunk ==
    /\ MainIdle /\ hostPlayback = "stopped" /\ PlayIdle /\ OffsetIdle /\ MoreIdle
    /\ tBuffer \in AllBuffers
    /\ tChunks = <<>>
    /\ tResult = NoValidChunks
    /\ tPc = "input"

ChunkStep ==
    /\ tPc = "input"
    /\ tChunks' = chunkArrayBuffer(tBuffer)
    /\ tPc' = "chunked"
    /\ UNCHANGED <<tBuffer, tResult, mainVars, playVars, offsetVars, moreVars>>

ReassembleStep ==
    /\ tPc = "chunked"
    /\ tResult' = reassembleChunks(tChunks)
    /\ tPc' = "done"
    /\ UNCHANGED <<tBuffer, tChunks, mainVars, playVars, offsetVars, moreVars>>

NextChunk == ChunkStep \/ ReassembleStep

SpecChunk == InitChunk /\ [][NextChunk]_vars

(***************************************************************************)
(* SpecOffset: calculateOffset on four timestamps.  t1 and t4 are read on  *)
(* the initiator's wall clock, t2 and t3 on the responder's.               *)
(***************************************************************************)
TimeVals == {0, 1000, 1050, 1055, 1060, 1120, 5000, 30000}

InitOffset ==
    /\ MainIdle /\ hostPlayback = "stopped" /\ PlayIdle /\ ChunkIdle /\ MoreIdle
    /\ oStamps \in TimeVals \X TimeVals \X TimeVals \X TimeVals
    /\ oSample = calculateOffset(0, 0, 0, 0)
    /\ oPc = "input"

\* handleResponse: calculateOffset(response.t1, response.t2, response.t3, t4)
OffsetStep ==
    /\ oPc = "input"
    /\ oSample' = calculateOffset(oStamps[1], oStamps[2], oStamps[3], oStamps[4])
    /\ oPc' = "done"
    /\ UNCHANGED <<oStamps, mainVars, playVars, chunkVars, moreVars>>

NextOffset == OffsetStep

SpecOffset == InitOffset /\ [][NextOffset]_vars

(***************************************************************************)
(* SpecPlay: a master ("M") broadcasts a play command to a guest ("G").    *)
(* Both have the payload loaded.  Device d reads                           *)
(*     performance.now() = realTime - pageEpoch[d]                         *)
(*     Date.now()        = realTime + wallSkew[d]                          *)
(* and the guest's store.clockOffset is what its clock sync measured.      *)
(***************************************************************************)
SCHEDULE_BUFFER == 300
TickMs == 100
MaxTime == 2000
StartTime == 1000
Epochs == {0, 600}
Skews == {0, 250}
Durations == {200, 5000}
\* audio-player.tsx, handleProgressClick: (percentage / 100) * duration with
\* the percentage clamped to 0..100 -- the start, a point inside every
\* duration, the end of the shortest
SeekTimes == {0, 150, 200}

performanceNow(d) == realTime - pageEpoch[d]
\* the offset a perfect run of the clock sync gives the guest: master - guest
TrueOffset == wallSkew["M"] - wallSkew["G"]

\* a schedulePlay that takes the sender's time for local time
schedulePlay_IgnoresOffset(scheduledTime, seekPosition, offset, now, dur) ==
    LET delay == Max(0, scheduledTime - now)
    IN  IF delay > 0
        THEN [started |-> TRUE, delay |-> delay, offset |-> seekPosition]
        ELSE IF seekPosition < dur
        THEN [started |-> TRUE, delay |-> 0, offset |-> seekPosition]
        ELSE [started |-> FALSE, delay |-> 0, offset |-> 0]

\* AudioEngine.schedulePlay on a ready player at performance.now() = now with
\* a buffer of dur ms: whether player.start is called, after which delay, at
\* which position
schedulePlay(scheduledTime, seekPosition, offset, now, dur) ==
    LET localTime == scheduledTime - offset
        delay == Max(0, localTime - now)
        lateBy == -delay
        adjustedSeek == seekPosition + lateBy
    IN  IF delay > 0
        THEN [started |-> TRUE, delay |-> delay, offset |-> seekPosition]
        ELSE IF adjustedSeek < dur
        THEN [started |-> TRUE, delay |-> 0, offset |-> adjustedSeek]
        ELSE [started |-> FALSE, delay |-> 0, offset |-> 0]

\* the call and what it did
Scheduled(d, scheduledTime, seekPosition, offset) ==
    LET out == schedulePlay(scheduledTime, seekPosition, offset,
                            performanceNow(d), duration)
    IN  [called |-> TRUE, at |-> realTime, scheduledTime |-> scheduledTime,
         seekPosition |-> seekPosition, clockOffset |-> offset,
         now |-> performanceNow(d), started |-> out.started,
         delay |-> out.delay, offset |-> out.offset]

\* the guest after its payload was decoded (processReceivedAudio: the engine
\* is ready, the store holds the file, the state is back to stopped)
PlayFile == [name |-> 1, size |-> 1, buffer |-> <<17>>]

MainLoaded ==
    /\ streams = <<>>
    /\ net = {}
    /\ extras = 0
    /\ audioChunks = Null
    /\ audioMeta = Null
    /\ pendingPlaybackState = Null
    /\ playbackState = "stopped"
    /\ audioFile = Some(PlayFile)
    /\ isReady = TRUE
    /\ player = "stopped"
    /\ lastPlay = Null
    /\ decoding = <<>>
    /\ trace = <<"stopped", "loading", "stopped">>
    /\ arrivals = <<>>
    /\ handoffs = <<>>

InitPlay ==
    /\ MainLoaded /\ hostPlayback = "stopped" /\ ChunkIdle /\ OffsetIdle /\ MoreIdle
    /\ realTime = StartTime
    /\ pageEpoch \in [{"M", "G"} -> Epochs]
    /\ wallSkew \in [{"M", "G"} -> Skews]
    /\ clockOffset \in {wallSkew["M"] - wallSkew["G"], 0}
    /\ duration \in Durations
    /\ playNet = {}
    /\ sched = [d \in {"M", "G"} |-> NotCalled]

Tick ==
    /\ realTime + TickMs <= MaxTime
    /\ realTime' = realTime + TickMs
    /\ UNCHANGED <<pageEpoch, wallSkew, clockOffset, duration, playNet, sched>>
    /\ UNCHANGED <<mainVars, chunkVars, offsetVars, moreVars>>

\* PeerManager.broadcastPlay on the master
BroadcastPlay(seekPosition) ==
    /\ ~sched["M"].called
    /\ LET startTime == performanceNow("M") + SCHEDULE_BUFFER
       IN  /\ playNet' = {[type |-> "SCHEDULE_PLAY", startTime |-> startTime,
                           seekPosition |-> seekPosition]}
           /\ sched' = [sched EXCEPT !["M"] =
                            Scheduled("M", startTime, seekPosition, 0)]
    /\ hostPlayback' = "playing"
    /\ UNCHANGED <<realTime, pageEpoch, wallSkew, clockOffset, duration>>
    /\ UNCHANGED <<streams, net, extras, audioChunks, audioMeta,
                   pendingPlaybackState, playbackState, audioFile, isReady,
                   player, lastPlay, decoding, trace, arrivals, handoffs>>
    /\ UNCHANGED <<chunkVars, offsetVars, moreVars>>

\* PeerManager.handleMessage, case SCHEDULE_PLAY, on the guest (whose
\* engine is ready): audioEngine.schedulePlay, then
\* store.setPlaybackState('playing')
ReceivePlay(m) ==
    /\ m \in playNet
    /\ playNet' = playNet \ {m}
    /\ isReady
    /\ sched' = [sched EXCEPT !["G"] =
                     Scheduled("G", m.startTime, m.seekPosition, clockOffset)]
    /\ player' = IF sched'["G"].started THEN "started" ELSE player
    /\ lastPlay' = PlayCall("message.startTime", m.seekPosition)
    /\ setPlaybackState("playing")
    /\ UNCHANGED <<realTime, pageEpoch, wallSkew, clockOffset, duration>>
    /\ UNCHANGED <<hostVarsOfMain, net, extras, audioChunks, audioMeta,
                   pendingPlaybackState, audioFile, isReady, decoding,
                   arrivals, handoffs>>
    /\ UNCHANGED <<chunkVars, offsetVars, moreVars>>

NextPlay ==
    \/ Tick
    \/ \E seekPosition \in SeekTimes : BroadcastPlay(seekPosition)
    \/ \E m \in playNet : ReceivePlay(m)

SpecPlay == InitPlay /\ [][NextPlay]_vars

(***************************************************************************)
(* sync-engine: the sample ring.  An estimate is a pair of exact fractions *)
(* num/den (the code divides floating-point sums by the sample count).     *)
(***************************************************************************)
maxSamples == 10

\* the newest sample popped off instead of the oldest shifted out
addSample_DropNewest(ring, result) ==
    LET pushed == Append(ring, result)
    IN  IF Len(pushed) > maxSamples THEN SubSeq(pushed, 1, maxSamples)
                                    ELSE pushed

addSample(ring, result) ==
    LET pushed == Append(ring, result)
    IN  IF Len(pushed) > maxSamples THEN Tail(pushed) ELSE pushed

\* Array.prototype.sort with (a, b) => a.roundTripTime - b.roundTripTime:
\* ascending and stable
insertByRtt(sorted, s) ==
    LET k == Cardinality({i \in 1..Len(sorted) :
                             sorted[i].roundTripTime <= s.roundTripTime})
    IN  SubSeq(sorted, 1, k) \o <<s>> \o SubSeq(sorted, k + 1, Len(sorted))

RECURSIVE sortByRtt(_)
sortByRtt(ring) ==
    IF ring = <<>> THEN <<>>
    ELSE insertByRtt(sortByRtt(SubSeq(ring, 1, Len(ring) - 1)),
                     ring[Len(ring)])

RECURSIVE sumRtt(_)
sumRtt(seq) ==
    IF seq = <<>> THEN 0 ELSE seq[1].roundTripTime + sumRtt(Tail(seq))

\* twice the offset of a sample, a whole number
twiceOffset(s) == s.clockOffset.num * (2 \div s.clockOffset.den)

RECURSIVE sumTwiceOffset(_)
sumTwiceOffset(seq) ==
    IF seq = <<>> THEN 0 ELSE twiceOffset(seq[1]) + sumTwiceOffset(Tail(seq))

\* the plain mean, nothing trimmed
getAverageResult_Untrimmed(ring) ==
    IF Len(ring) = 0
    THEN [roundTripTime |-> Whole(0), clockOffset |-> Whole(0)]
    ELSE [roundTripTime |-> [num |-> sumRtt(ring), den |-> Len(ring)],
          clockOffset |-> [num |-> sumTwiceOffset(ring),
                           den |-> 2 * Len(ring)]]

getAverageResult(ring) ==
    IF Len(ring) = 0
    THEN [roundTripTime |-> Whole(0), clockOffset |-> Whole(0)]
    ELSE LET sorted == sortByRtt(ring)
             trimCount == Len(sorted) \div 5
             stop == IF Len(sorted) - trimCount = 0
                     THEN Len(sorted) ELSE Len(sorted) - trimCount
             trimmed == SubSeq(sorted, trimCount + 1, stop)
         IN  IF Len(trimmed) = 0
             THEN [roundTripTime |-> Whole(ring[Len(ring)].roundTripTime),
                   clockOffset |-> ring[Len(ring)].clockOffset]
             ELSE [roundTripTime |-> [num |-> sumRtt(trimmed),
                                      den |-> Len(trimmed)],
                   clockOffset |-> [num |-> sumTwiceOffset(trimmed),
                                    den |-> 2 * Len(trimmed)]]

(***************************************************************************)
(* SpecRing: addSample, getAverageResult and the reset of stopSync applied *)
(* to the ring in any order.                                               *)
(***************************************************************************)
RingSamples ==
    {[roundTripTime |-> 20, clockOffset |-> Whole(4)],
     [roundTripTime |-> 20, clockOffset |-> Whole(-6)],
     [roundTripTime |-> 110, clockOffset |-> Half(-15)]}

InitRing == FirstIdle /\ MoreIdle

AddSampleStep(result) ==
    /\ samples' = addSample(samples, result)
    /\ shifted' = IF Len(samples) + 1 > maxSamples THEN Some(samples[1])
                                                    ELSE Null
    /\ estimate' = Null
    /\ UNCHANGED otherVarsOfRing

AverageStep ==
    /\ estimate = Null
    /\ estimate' = Some(getAverageResult(samples))
    /\ UNCHANGED <<samples, shifted, otherVarsOfRing>>

\* stopSync (also the first statement of startSync): this.samples = []
ResetStep ==
    /\ samples' = <<>>
    /\ shifted' = Null
    /\ estimate' = Null
    /\ UNCHANGED otherVarsOfRing

NextRing ==
    \/ \E result \in RingSamples : AddSampleStep(result)
    \/ AverageStep
    \/ ResetStep

SpecRing == InitRing /\ [][NextRing]_vars

(***************************************************************************)
(* SpecSync: SyncEngine.startSync / stopSync / performSync on the guest    *)
(* and handleSyncRequest on the host, over one connection.  Timers fire    *)
(* once due, the earlier first; of two due at the same time the one set    *)
(* first fires first, which puts a probe's timeout before the interval     *)
(* tick of the same instant.  The clock moves only when no timer is due.   *)
(***************************************************************************)
SYNC_INTERVAL == 1000
RESPONSE_TIMEOUT == 1000
SyncTick == 500
SyncMaxTime == 2000
MaxProbes == 3
MaxStarts == 2
MaxStops == 1

\* performSync: the state of the connection and the timers after the call
performSyncListeners(run) ==
    Append(listeners, [probe |-> probes + 1, run |-> run])
performSyncRequests ==
    sReq \cup {[type |-> "SYNC_REQUEST", t1 |-> sNow, probe |-> probes + 1]}
performSyncTimeouts ==
    timeouts \cup {[probe |-> probes + 1, due |-> sNow + RESPONSE_TIMEOUT]}

\* stopSync: clearInterval(this.intervalId)
clearedIntervals ==
    IF intervalId # Null THEN {t \in intervals : t.id # intervalId[1]}
                         ELSE intervals

StopSync ==
    /\ stops < MaxStops
    /\ intervals' = clearedIntervals
    /\ intervalId' = Null
    /\ samples' = <<>>
    /\ stops' = stops + 1
    /\ running' = FALSE
    /\ UNCHANGED <<sNow, timeouts, listeners, sReq, sResp, probes, starts,
                   sLog, estimate, shifted, otherVarsOfSync>>

StartSync ==
    /\ starts < MaxStarts /\ probes < MaxProbes
    /\ starts' = starts + 1
    /\ samples' = <<>>
    /\ listeners' = performSyncListeners(starts + 1)
    /\ sReq' = performSyncRequests
    /\ timeouts' = performSyncTimeouts
    /\ probes' = probes + 1
    /\ intervals' = clearedIntervals
                        \cup {[id |-> starts + 1, due |-> sNow + SYNC_INTERVAL]}
    /\ intervalId' = Some(starts + 1)
    /\ running' = TRUE
    /\ UNCHANGED <<sNow, sResp, stops, sLog, estimate, shifted, otherVarsOfSync>>

NothingDueBefore(due) ==
    /\ \A t \in timeouts : t.due >= due
    /\ \A t \in intervals : t.due >= due

\* the setInterval callback: performSync, and the timer is set again
IntervalFire(t) ==
    /\ t.due <= sNow /\ probes < MaxProbes
    /\ NothingDueBefore(t.due)
    /\ \A o \in timeouts : o.due > t.due
    /\ listeners' = performSyncListeners(starts)
    /\ sReq' = performSyncRequests
    /\ timeouts' = performSyncTimeouts
    /\ probes' = probes + 1
    /\ intervals' = (intervals \ {t})
                        \cup {[id |-> t.id, due |-> sNow + SYNC_INTERVAL]}
    /\ UNCHANGED <<sNow, intervalId, sResp, starts, stops, running, sLog,
                   ringVars, otherVarsOfSync>>

RECURSIVE withoutProbe(_, _)
withoutProbe(ls, probe) ==
    IF ls = <<>> THEN <<>>
    ELSE IF ls[1].probe = probe THEN Tail(ls)
         ELSE <<ls[1]>> \o withoutProbe(Tail(ls), probe)

\* the setTimeout callback: connection.off('data', handleResponse)
TimeoutFire(t) ==
    /\ t.due <= sNow
    /\ NothingDueBefore(t.due)
    /\ timeouts' = timeouts \ {t}
    /\ listeners' = withoutProbe(listeners, t.probe)
    /\ UNCHANGED <<sNow, intervalId, intervals, sReq, sResp, probes, starts,
                   stops, running, sLog, ringVars, otherVarsOfSync>>

\* host: handleMessage case SYNC_REQUEST -> handleSyncRequest
HandleSyncRequest(request) ==
    /\ sReq' = sReq \ {request}
    /\ sResp' = sResp \cup {[type |-> "SYNC_RESPONSE", t1 |-> request.t1,
                              t2 |-> sNow, t3 |-> sNow,
                              probe |-> request.probe]}
    /\ UNCHANGED <<sNow, intervalId, intervals, timeouts, listeners, probes,
                   starts, stops, running, sLog, ringVars, otherVarsOfSync>>

RECURSIVE addSampleTimes(_, _, _)
addSampleTimes(ring, result, n) ==
    IF n = 0 THEN ring ELSE addSampleTimes(addSample(ring, result), result, n - 1)

\* guest: a SYNC_RESPONSE is emitted to every handleResponse registered on
\* the connection; each computes a sample from it, adds the sample, calls
\* onSyncComplete and removes itself
HandleResponse(response) ==
    LET result == calculateOffset(response.t1, response.t2, response.t3, sNow)
        ring == addSampleTimes(samples, result, Len(listeners))
    IN  /\ sResp' = sResp \ {response}
        /\ samples' = ring
        /\ estimate' = IF listeners = <<>> THEN estimate
                                           ELSE Some(getAverageResult(ring))
        /\ listeners' = <<>>
        /\ sLog' = Append(sLog, [probe |-> response.probe,
                                 age |-> sNow - response.t1,
                                 by |-> listeners,
                                 run |-> starts,
                                 stops |-> stops,
                                 running |-> running])
        /\ UNCHANGED <<sNow, intervalId, intervals, timeouts, sReq, probes,
                       starts, stops, running, shifted, otherVarsOfSync>>

SyncTickStep ==
    /\ sNow + SyncTick <= SyncMaxTime
    /\ NothingDueBefore(sNow + 1)
    /\ sNow' = sNow + SyncTick
    /\ UNCHANGED <<intervalId, intervals, timeouts, listeners, sReq, sResp,
                   probes, starts, stops, running, sLog, ringVars, otherVarsOfSync>>

InitSync == FirstIdle /\ MoreIdle

NextSync ==
    \/ StartSync
    \/ StopSync
    \/ \E t \in intervals : IntervalFire(t)
    \/ \E t \in timeouts : TimeoutFire(t)
    \/ \E request \in sReq : HandleSyncRequest(request)
    \/ \E response \in sResp : HandleResponse(response)
    \/ SyncTickStep

SpecSync == InitSync /\ [][NextSync]_vars

(***************************************************************************)
(* SpecRetry: one call of initAsHost / initAsGuest, which is               *)
(* withRetry(operation, 2, 500).  The single attempt settles either way.   *)
(***************************************************************************)
maxRetries == 2
RetryErrors == {"timeout", "peer-unavailable", "network"}
RetryRoles == {"host", "guest"}
\* what the single attempt resolves with: the peer id for a host, nothing for
\* a guest
RetryValue(role) == IF role = "host" THEN "peer-id" ELSE "void"

\* a retry after every failure, the last included
mayRetry_Always(n) == TRUE

\* if (attempt < maxRetries)
mayRetry(n) == n < maxRetries

\* the for statement: attempt <= maxRetries, else throw lastError
LoopOrThrow(n, history) ==
    IF n <= maxRetries
    THEN /\ rPc' = "operation"
         /\ rLog' = Append(history, [kind |-> "attempt", what |-> n])
         /\ outcome' = outcome
    ELSE /\ rPc' = "rejected"
         /\ rLog' = history
         /\ outcome' = Some([kind |-> "error", what |-> lastError'[1]])

InitAs(role) ==
    /\ rPc = "idle"
    /\ attempt' = 0
    /\ lastError' = Null
    /\ LoopOrThrow(0, <<[kind |-> "call", what |-> role]>>)
    /\ UNCHANGED otherVarsOfRetry

OperationResolves ==
    /\ rPc = "operation"
    /\ rPc' = "resolved"
    /\ outcome' = Some([kind |-> "value", what |-> RetryValue(rLog[1].what)])
    /\ rLog' = Append(rLog, [kind |-> "ok", what |-> attempt])
    /\ UNCHANGED <<attempt, lastError, otherVarsOfRetry>>

OperationRejects(error) ==
    /\ rPc = "operation"
    /\ lastError' = Some(error)
    /\ IF mayRetry(attempt)
       THEN /\ rPc' = "delay"
            /\ rLog' = Append(rLog, [kind |-> "fail", what |-> error])
            /\ UNCHANGED <<attempt, outcome>>
       ELSE /\ attempt' = attempt + 1
            /\ LoopOrThrow(attempt + 1,
                           Append(rLog, [kind |-> "fail", what |-> error]))
    /\ UNCHANGED otherVarsOfRetry

\* the setTimeout(resolve, baseDelayMs) promise resolves
DelayElapses ==
    /\ rPc = "delay"
    /\ attempt' = attempt + 1
    /\ lastError' = lastError
    /\ LoopOrThrow(attempt + 1,
                   Append(rLog, [kind |-> "wait", what |-> attempt]))
    /\ UNCHANGED otherVarsOfRetry

InitRetry == FirstIdle /\ MoreIdle

NextRetry ==
    \/ \E role \in RetryRoles : InitAs(role)
    \/ OperationResolves
    \/ \E error \in RetryErrors : OperationRejects(error)
    \/ DelayElapses

SpecRetry == InitRetry /\ [][NextRetry]_vars

(***************************************************************************)
(* SpecSession: the guest's handler over an ordered channel that may lose  *)
(* messages other than metadata, the host streaming up to MaxStreams       *)
(* payloads one after the other.                                           *)
(* SpecLink: the same handler and channel, the link closing and being set  *)
(* up again by initAsGuest, the host streaming its payload to each         *)
(* connection that opens.                                                  *)
(***************************************************************************)
MaxStreams == 2
MaxCloses == 1

guestVarsOfMain == <<audioChunks, audioMeta, pendingPlaybackState,
                     playbackState, audioFile, isReady, player, lastPlay,
                     decoding, trace, arrivals, handoffs>>
otherVarsOfSession == <<chunkVars, playVars, offsetVars, ringVars, syncVars,
                        retryVars, lastVars>>

\* the message the channel hands over next
Oldest == CHOOSE m \in net : \A o \in net : m.seq <= o.seq

\* streamAudioToPeer for the payload just chosen (streamAudioToAll), or for
\* the loaded payload when the guest's connection opens (join), which the
\* snapshot then follows
StreamNext(n, join) ==
    /\ connected
    /\ Len(streams) < MaxStreams
    /\ LET t == Len(streams) + 1
           buffer == Payload(t, n)
       IN  /\ streams' = Append(streams, buffer)
           /\ net' = net \cup StreamMessages(t, buffer, join)
    /\ UNCHANGED <<hostPlayback, extras, guestVarsOfMain, linkVars,
                   otherVarsOfSession>>

DeliverNext ==
    /\ net # {}
    /\ LET m == Oldest
       IN  /\ HandleMessage(m)
           /\ net' = net \ {m}
           /\ superseded' = IF m.type = "AUDIO_META" /\ audioChunks # Null
                            THEN audioChunks ELSE superseded
    /\ UNCHANGED <<hostVarsOfMain, extras, connected, closes, rejections,
                   otherVarsOfSession>>

\* a chunk, a sentinel or a snapshot never arrives (the gaps that the
\* AUDIO_COMPLETE fallback is there for)
LoseNext ==
    /\ net # {}
    /\ Oldest.type # "AUDIO_META"
    /\ net' = net \ {Oldest}
    /\ UNCHANGED <<hostVarsOfMain, extras, guestVarsOfMain, linkVars,
                   otherVarsOfSession>>

\* initAsGuestOnce, conn.on('close'): connections.delete(hostPeerId) and
\* the status; what was in flight is gone
LinkClose ==
    /\ connected
    /\ closes < MaxCloses
    /\ connected' = FALSE
    /\ closes' = closes + 1
    /\ net' = {}
    /\ UNCHANGED <<hostVarsOfMain, extras, guestVarsOfMain, superseded,
                   rejections, otherVarsOfSession>>

\* initAsGuest again: resetState() clears audioChunks and audioMeta, and
\* the new connection opens
ReInit ==
    /\ ~connected
    /\ connected' = TRUE
    /\ audioChunks' = Null
    /\ audioMeta' = Null
    /\ UNCHANGED <<hostVarsOfMain, net, extras, pendingPlaybackState,
                   playbackState, audioFile, isReady, player, lastPlay,
                   decoding, trace, arrivals, handoffs, closes, superseded,
                   rejections, otherVarsOfSession>>

\* the decode of decoding[i] is rejected on the link (counted)
RejectOnLink(i) ==
    /\ CatchThenFinally(i)
    /\ rejections' = rejections + 1
    /\ UNCHANGED <<connected, closes, superseded, otherVarsOfSession>>

InitSession == Init /\ hostPlayback = "stopped"

\* host page, handleFileSelect: streamAudioToAll
NextSession ==
    \/ \E n \in FileSizes : StreamNext(n, FALSE)
    \/ DeliverNext
    \/ LoseNext
    \/ \E i \in 1..Len(decoding) : DecodeResolved(i)
    \/ \E i \in 1..Len(decoding) : RejectOnLink(i)

SpecSession == InitSession /\ [][NextSession]_vars

\* handleIncomingConnection, conn.on('open'): the loaded payload is streamed
\* to the connection, then the snapshot
StreamOnOpen(n) ==
    /\ Len(streams) <= closes
    /\ StreamNext(n, TRUE)

InitLink == Init

NextLink ==
    \/ \E n \in FileSizes : StreamOnOpen(n)
    \/ DeliverNext
    \/ LoseNext
    \/ LinkClose
    \/ ReInit
    \/ \E i \in 1..Len(decoding) : DecodeResolved(i)
    \/ \E i \in 1..Len(decoding) : RejectOnLink(i)

SpecLink == InitLink /\ [][NextLink]_vars

\* SpecLink with what the runtime guarantees: a message in flight on an
\* open link is handed to the handler, and a decode settles.  Nothing
\* obliges anybody to set the link up again.
FairLink ==
    /\ WF_vars(DeliverNext)
    /\ WF_vars(\E i \in 1..Len(decoding) : DecodeResolved(i) \/ RejectOnLink(i))
SpecLinkFair == SpecLink /\ FairLink

(***************************************************************************)
(* SpecJoin: the host.  Guests' connections open (handleIncomingConnection)*)
(* and the host picks files (host page, handleFileSelect); each            *)
(* streamAudioToPeer call sends until it awaits its 10 ms timer, which     *)
(* happens after every YIELD_EVERY-th chunk, and goes on when the timer    *)
(* fires.  Timers of equal delay fire in the order they were set.          *)
(* SpecOverlap: the same host with the guest g1 handling what arrives on   *)
(* its link, in order.                                                     *)
(***************************************************************************)
YIELD_EVERY == 2
MaxFiles == 1
MaxOverlapFiles == 2
JoinFileSizes == {CHUNK_SIZE, (YIELD_EVERY + 1) * CHUNK_SIZE - 1,
                  3 * YIELD_EVERY * CHUNK_SIZE}

Range(seq) == {seq[k] : k \in 1..Len(seq)}

\* a loop that stops one chunk early
lastOfBatch_Short(from, total) ==
    Min(from + (YIELD_EVERY - 1) - (from % YIELD_EVERY), total - 2)

\* the last index the loop of streamAudioToPeer sends, entered at index
\* from, before it awaits the timer (i % 10 === 9) or ends (i < chunks.length)
lastOfBatch(from, total) ==
    Min(from + (YIELD_EVERY - 1) - (from % YIELD_EVERY), total - 1)

\* the loop, entered at index from, awaits the timer
yields(from, total) ==
    /\ from <= lastOfBatch(from, total)
    /\ lastOfBatch(from, total) % YIELD_EVERY = YIELD_EVERY - 1

\* a snapshot that always reports a host at rest
snapshotIsPlaying_Never(state) == FALSE

\* sendPlaybackStateToConnection: isPlaying
snapshotIsPlaying(state) == state = "playing"

\* sendPlaybackStateToConnection: the message, seek being what
\* audioEngine.getCurrentTime() returns
sendPlaybackStateToConnection(c, seek) ==
    [type |-> "PLAYBACK_STATE", call |-> c,
     isPlaying |-> snapshotIsPlaying(hostPlayback),
     seekPosition |-> IF snapshotIsPlaying(hostPlayback) THEN seek ELSE 0]

\* streamAudioToPeer, call c, from index from (0: the start of the call) to
\* its next await or its end; chunks is the call's local
\* const chunks = chunkArrayBuffer(buffer), size its buffer.byteLength
streamAudioToPeer(c, name, size, chunks, from) ==
    LET total == Len(chunks)
        last == lastOfBatch(from, total)
    IN  (IF from = 0
         THEN <<[type |-> "AUDIO_META", call |-> c, name |-> name,
                 size |-> size, totalChunks |-> total]>>
         ELSE <<>>)
        \o [k \in 1..(last - from + 1) |->
               [type |-> "AUDIO_CHUNK", call |-> c,
                chunkIndex |-> from + k - 1, totalChunks |-> total,
                data |-> chunks[from + k]]]
        \o (IF yields(from, total)
            THEN <<>>
            ELSE <<[type |-> "AUDIO_COMPLETE", call |-> c]>>)

\* what a call sends in one go: on a join (handleIncomingConnection) the
\* snapshot follows the await of streamAudioToPeer
SentInOneGo(c, name, size, chunks, from, join, seek) ==
    streamAudioToPeer(c, name, size, chunks, from)
        \o (IF join /\ ~yields(from, Len(chunks))
            THEN <<sendPlaybackStateToConnection(c, seek)>>
            ELSE <<>>)

\* the call as it stands after that: its arguments, its locals (chunks, the
\* loop index) and whether it awaits the timer
CallAfter(l, name, size, chunks, from, join) ==
    LET total == Len(chunks)
    IN  [link |-> l, name |-> name, join |-> join,
         size |-> size, chunks |-> chunks,
         next |-> Max(from, lastOfBatch(from, total) + 1),
         pc |-> IF yields(from, total) THEN "waiting" ELSE "done"]

\* conn.send: the messages go on the link's wire, numbered
Stamped(l, msgs) ==
    [k \in 1..Len(msgs) |-> [seq |-> Len(wire[l]) + k] @@ msgs[k]]

\* handleIncomingConnection, conn.on('open')
IncomingOpen(l, seek) ==
    /\ l \notin Range(hConnections)
    /\ hConnections' = Append(hConnections, l)
    /\ connectedPeers' = connectedPeers \cup {l}
    /\ IF hostFile # Null
       THEN LET c == Len(calls) + 1
                file == hostFile[1]
                chunks == chunkArrayBuffer(file.buffer)
                msgs == Stamped(l, SentInOneGo(c, file.name, Len(file.buffer),
                                               chunks, 0, TRUE, seek))
                call == CallAfter(l, file.name, Len(file.buffer), chunks, 0,
                                  TRUE)
            IN  /\ wire' = [wire EXCEPT ![l] = @ \o msgs]
                /\ net' = IF l = "g1" THEN net \cup Range(msgs) ELSE net
                /\ calls' = Append(calls, call)
                /\ timers' = IF call.pc = "waiting" THEN Append(timers, c)
                                                    ELSE timers
       ELSE UNCHANGED <<wire, net, calls, timers>>
    /\ UNCHANGED <<streams, hostPlayback, extras, hostFile, guestVarsOfMain,
                   linkVars, chunkVars, playVars, offsetVars, ringVars,
                   syncVars, retryVars, masterVars,
                   initVars>>

\* host page, handleFileSelect once loadFromFile has resolved: setAudioFile,
\* then streamAudioToAll (streamAudioToPeer for each connection, in Map order)
HandleFileSelect(n) ==
    /\ LET t == Len(streams) + 1
           buffer == Payload(t, n)
           chunks == chunkArrayBuffer(buffer)
           msgs == [l \in Links |->
                      IF \E j \in 1..Len(hConnections) : hConnections[j] = l
                      THEN LET j == CHOOSE j \in 1..Len(hConnections) :
                                        hConnections[j] = l
                           IN  Stamped(l, SentInOneGo(Len(calls) + j, t, n,
                                                      chunks, 0, FALSE, 0))
                      ELSE <<>>]
           started == [j \in 1..Len(hConnections) |->
                          CallAfter(hConnections[j], t, n, chunks, 0, FALSE)]
       IN  /\ streams' = Append(streams, buffer)
           /\ hostFile' = Some([name |-> t, buffer |-> buffer])
           /\ wire' = [l \in Links |-> wire[l] \o msgs[l]]
           /\ net' = net \cup Range(msgs["g1"])
           /\ calls' = calls \o started
           /\ timers' = timers \o
                 SelectSeq([j \in 1..Len(hConnections) |-> Len(calls) + j],
                           LAMBDA c : (calls \o started)[c].pc = "waiting")
    /\ UNCHANGED <<hostPlayback, extras, hConnections, connectedPeers,
                   guestVarsOfMain, linkVars, chunkVars, playVars, offsetVars,
                   ringVars, syncVars, retryVars, masterVars,
                   initVars>>

\* the timer of the call that has waited longest fires: the loop goes on
TimerFires(seek) ==
    /\ timers # <<>>
    /\ LET c == Head(timers)
           call == calls[c]
           msgs == Stamped(call.link,
                           SentInOneGo(c, call.name, call.size, call.chunks,
                                       call.next, call.join, seek))
           after == CallAfter(call.link, call.name, call.size, call.chunks,
                              call.next, call.join)
       IN  /\ wire' = [wire EXCEPT ![call.link] = @ \o msgs]
           /\ net' = IF call.link = "g1" THEN net \cup Range(msgs) ELSE net
           /\ calls' = [calls EXCEPT ![c] = after]
           /\ timers' = IF after.pc = "waiting" THEN Append(Tail(timers), c)
                                                ELSE Tail(timers)
    /\ UNCHANGED <<streams, hostPlayback, extras, hostFile, hConnections,
                   connectedPeers, guestVarsOfMain, linkVars, chunkVars,
                   playVars, offsetVars, ringVars, syncVars, retryVars,
                   masterVars,
                   initVars>>

\* the host's player controls (audio-player.tsx: pause is offered while
\* playing, play otherwise, stop and restart always; host page: a seek
\* broadcasts play while playing): broadcastPlay / broadcastPause /
\* broadcastStop send to every connection and set the host's own state
HostBroadcast(kind, seek) ==
    /\ hostFile # Null
    /\ kind = "SCHEDULE_PAUSE" => hostPlayback = "playing"
    /\ kind # "SCHEDULE_PLAY" => seek = 0
    /\ extras' = extras + 1
    /\ LET msgs == [l \in Links |->
                      IF l \in Range(hConnections)
                      THEN Stamped(l, <<IF kind = "SCHEDULE_PLAY"
                                        THEN [type |-> kind, call |-> 0,
                                              seekPosition |-> seek]
                                        ELSE [type |-> kind, call |-> 0]>>)
                      ELSE <<>>]
       IN  /\ wire' = [l \in Links |-> wire[l] \o msgs[l]]
           /\ net' = net \cup Range(msgs["g1"])
    /\ hostPlayback' = CASE kind = "SCHEDULE_PLAY" -> "playing"
                         [] kind = "SCHEDULE_PAUSE" -> "paused"
                         [] kind = "SCHEDULE_STOP" -> "stopped"
    /\ UNCHANGED <<streams, hostFile, hConnections, connectedPeers, calls,
                   timers, guestVarsOfMain, linkVars, chunkVars, playVars,
                   offsetVars, ringVars, syncVars, retryVars, masterVars,
                   initVars>>

InitJoin == Init /\ hostPlayback = "stopped"

NextJoin ==
    \/ \E l \in Links, seek \in Seeks : IncomingOpen(l, seek)
    \/ \E n \in JoinFileSizes :
          Len(streams) < MaxFiles /\ HandleFileSelect(n)
    \/ \E seek \in Seeks : TimerFires(seek)
    \/ \E kind \in {"SCHEDULE_PLAY", "SCHEDULE_PAUSE", "SCHEDULE_STOP"},
          seek \in Seeks : extras < MaxExtra /\ HostBroadcast(kind, seek)

\* a timer that was set fires
SpecJoin == InitJoin /\ [][NextJoin]_vars
                /\ WF_vars(\E seek \in Seeks : TimerFires(seek))

NextOverlap ==
    \/ \E seek \in Seeks : IncomingOpen("g1", seek)
    \/ \E n \in JoinFileSizes :
          Len(streams) < MaxOverlapFiles /\ HandleFileSelect(n)
    \/ \E seek \in Seeks : TimerFires(seek)
    \/ DeliverNext
    \/ \E i \in 1..Len(decoding) : DecodeResolved(i)
    \/ \E i \in 1..Len(decoding) : DecodeRejected(i)

SpecOverlap == InitJoin /\ [][NextOverlap]_vars

\* SpecReload: SpecOverlap with the host's player controls, the guest
\* handling commands while a first or a later payload is on its way.
MaxCommands == 2

ReloadFileSize == (YIELD_EVERY + 1) * CHUNK_SIZE - 1

NextReload ==
    \/ IncomingOpen("g1", 0)
    \/ Len(streams) < MaxOverlapFiles /\ HandleFileSelect(ReloadFileSize)
    \/ TimerFires(0)
    \/ DeliverNext
    \/ \E i \in 1..Len(decoding) : DecodeResolved(i)
    \/ \E kind \in {"SCHEDULE_PLAY", "SCHEDULE_PAUSE", "SCHEDULE_STOP"},
          seek \in Seeks : extras < MaxCommands /\ HostBroadcast(kind, seek)

SpecReload == InitJoin /\ [][NextReload]_vars

(***************************************************************************)
(* SpecMaster: the master flag and the playback commands.  The host and    *)
(* two guests each run their own store, PeerManager and AudioEngine; the   *)
(* channels between the host and a guest are ordered and reliable.         *)
(***************************************************************************)
MaxSends == 2
MaxHostOpens == 2

otherVarsOfMaster == <<firstVars, ringVars, syncVars, retryVars, linkVars,
                       joinVars, initVars>>

\* audio-player.tsx: the transport buttons are rendered, and a click on the
\* progress bar is honoured, only for a master.
controlsShown_Always(flag) == TRUE
controlsShown(flag) == flag

\* handleMessage, GRANT_MASTER: message.peerId === store.peerId.
grantApplies_Any(participantId, own) == TRUE
grantApplies(participantId, own) == participantId = own

\* connections.forEach(conn => conn.send(message))
SentToAll(p, m) ==
    [pair \in Pairs |->
        IF pair[1] = p /\ pair[2] \in conns[p]
        THEN Append(chan[pair], m)
        ELSE chan[pair]]

EngineCall(p, call, seek, from) ==
    Some([call |-> call, seek |-> seek, from |-> from,
          asMaster |-> isMaster[p]])

\* PeerManager.broadcastPlay / broadcastPause / broadcastStop
broadcastPlay(p, seek) ==
    /\ chan' = SentToAll(p, [type |-> "SCHEDULE_PLAY", seekPosition |-> seek])
    /\ mEngine' = [mEngine EXCEPT ![p] = EngineCall(p, "schedulePlay", seek, "local")]
    /\ mPlayback' = [mPlayback EXCEPT ![p] = "playing"]

broadcastPause(p) ==
    /\ chan' = SentToAll(p, [type |-> "SCHEDULE_PAUSE"])
    /\ mEngine' = [mEngine EXCEPT ![p] = EngineCall(p, "pause", 0, "local")]
    /\ mPlayback' = [mPlayback EXCEPT ![p] = "paused"]

broadcastStop(p) ==
    /\ chan' = SentToAll(p, [type |-> "SCHEDULE_STOP"])
    /\ mEngine' = [mEngine EXCEPT ![p] = EngineCall(p, "stop", 0, "local")]
    /\ mPlayback' = [mPlayback EXCEPT ![p] = "stopped"]

\* What every transport control has in common: the player is on the page
\* (a payload is loaded) and the controls are rendered.
ControlUsable(p) ==
    /\ sent < MaxSends
    /\ mLoaded[p]
    /\ controlsShown(isMaster[p])
    /\ sent' = sent + 1
    /\ UNCHANGED <<isMaster, mLoaded, mPending, conns, table, hostOpens>>
    /\ UNCHANGED otherVarsOfMaster

\* The play/pause button: onClick={isPlaying ? onPause : onPlay}
PressPlay(p, seek) ==
    /\ ControlUsable(p)
    /\ mPlayback[p] # "playing"
    /\ broadcastPlay(p, seek)

PressPause(p) ==
    /\ ControlUsable(p)
    /\ mPlayback[p] = "playing"
    /\ broadcastPause(p)

PressStop(p) ==
    /\ ControlUsable(p)
    /\ broadcastStop(p)

\* handleSeek (progress bar click, restart button): re-broadcasts play only
\* while playing.
SeekTo(p, seek) ==
    /\ ControlUsable(p)
    /\ mPlayback[p] = "playing"
    /\ broadcastPlay(p, seek)

\* initAsHostOnce, peer.on('open'): store.setIsMaster(true).  The peer is
\* reconnected on 'disconnected', and 'open' fires again.
HostOpen ==
    /\ hostOpens < MaxHostOpens
    /\ hostOpens' = hostOpens + 1
    /\ isMaster' = [isMaster EXCEPT !["host"] = TRUE]
    /\ UNCHANGED <<mPlayback, mLoaded, mPending, mEngine, conns, table, chan,
                   sent>>
    /\ UNCHANGED otherVarsOfMaster

\* A guest's connection opens on both sides: connectToHostOnce registers the
\* host, handleIncomingConnection registers the guest and adds it to the
\* peer table.
Connect(g) ==
    /\ hostOpens > 0
    /\ g \notin conns["host"]
    /\ conns' = [conns EXCEPT !["host"] = @ \cup {g}, ![g] = {"host"}]
    /\ table' = table \cup {g}
    /\ UNCHANGED <<isMaster, mPlayback, mLoaded, mPending, mEngine, chan, sent,
                   hostOpens>>
    /\ UNCHANGED otherVarsOfMaster

\* The payload becomes playable: handleFileSelect on the host,
\* processReceivedAudio on a guest, which then applies a queued play.
Loaded(p) ==
    /\ ~mLoaded[p]
    /\ p \in Guests => "host" \in conns[p] /\ mLoaded["host"]
    /\ mLoaded' = [mLoaded EXCEPT ![p] = TRUE]
    /\ mPending' = [mPending EXCEPT ![p] = Null]
    /\ IF p \in Guests /\ mPending[p] # Null
       THEN /\ mEngine' = [mEngine EXCEPT ![p] =
                  EngineCall(p, "schedulePlay", mPending[p][1].seekPosition,
                             "pending")]
            /\ mPlayback' = [mPlayback EXCEPT ![p] = "playing"]
       ELSE /\ mPlayback' = [mPlayback EXCEPT ![p] =
                  IF p \in Guests THEN "stopped" ELSE @]
            /\ UNCHANGED mEngine
    /\ UNCHANGED <<isMaster, conns, table, chan, sent, hostOpens>>
    /\ UNCHANGED otherVarsOfMaster

\* PeerManager.grantMaster(peerId), from the host's device list
\* a grant that would also take the flag away from every other participant;
\* grantMaster does no such thing
GrantMaster_Exclusive(g) ==
    /\ sent < MaxSends
    /\ g \in table
    /\ g \in conns["host"]
    /\ chan' = [chan EXCEPT ![<<"host", g>>] =
                  Append(@, [type |-> "GRANT_MASTER", peerId |-> g])]
    /\ isMaster' = [p \in Participants |-> FALSE]
    /\ sent' = sent + 1
    /\ UNCHANGED <<mPlayback, mLoaded, mPending, mEngine, conns, table,
                   hostOpens>>
    /\ UNCHANGED otherVarsOfMaster

GrantMaster(g) ==
    /\ sent < MaxSends
    /\ g \in table
    /\ g \in conns["host"]
    /\ chan' = [chan EXCEPT ![<<"host", g>>] =
                  Append(@, [type |-> "GRANT_MASTER", peerId |-> g])]
    /\ isMaster' = [isMaster EXCEPT !["host"] = FALSE]
    /\ sent' = sent + 1
    /\ UNCHANGED <<mPlayback, mLoaded, mPending, mEngine, conns, table,
                   hostOpens>>
    /\ UNCHANGED otherVarsOfMaster

\* PeerManager.requestMaster(), from the guest page's request button
RequestMaster(g) ==
    /\ sent < MaxSends
    /\ ~isMaster[g] /\ mLoaded[g]
    /\ "host" \in conns[g]
    /\ chan' = [chan EXCEPT ![<<g, "host">>] =
                  Append(@, [type |-> "REQUEST_MASTER", peerId |-> g])]
    /\ sent' = sent + 1
    /\ UNCHANGED <<isMaster, mPlayback, mLoaded, mPending, mEngine, conns,
                   table, hostOpens>>
    /\ UNCHANGED otherVarsOfMaster

\* protocol.ts declares RevokeMaster, and GrantMaster carries any peer id;
\* this repository's own senders never produce these two, a peer running
\* other code can.
ForeignMasterMessages(p) ==
    {[type |-> "REVOKE_MASTER"]}
    \cup {[type |-> "GRANT_MASTER", peerId |-> o] : o \in Participants \ {p}}

ForeignSend(q, p, m) ==
    /\ sent < MaxSends
    /\ <<q, p>> \in Pairs
    /\ p \in conns[q]
    /\ m \in ForeignMasterMessages(p)
    /\ chan' = [chan EXCEPT ![<<q, p>>] = Append(@, m)]
    /\ sent' = sent + 1
    /\ UNCHANGED <<isMaster, mPlayback, mLoaded, mPending, mEngine, conns,
                   table, hostOpens>>
    /\ UNCHANGED otherVarsOfMaster

IsControl(m) == m.type \in {"SCHEDULE_PLAY", "SCHEDULE_PAUSE", "SCHEDULE_STOP"}

\* handleMessage, cases SCHEDULE_PLAY, SCHEDULE_PAUSE, SCHEDULE_STOP
ApplyControl_UnlessMaster(p, q, m) ==
    IF isMaster[p]
    THEN UNCHANGED <<mPending, mEngine, mPlayback>>
    ELSE CASE m.type = "SCHEDULE_PLAY" ->
                IF ~mLoaded[p]
                THEN /\ mPending' = [mPending EXCEPT ![p] =
                           Some([isPlaying |-> TRUE,
                                 seekPosition |-> m.seekPosition])]
                     /\ UNCHANGED <<mEngine, mPlayback>>
                ELSE /\ mEngine' = [mEngine EXCEPT ![p] =
                           EngineCall(p, "schedulePlay", m.seekPosition, q)]
                     /\ mPlayback' = [mPlayback EXCEPT ![p] = "playing"]
                     /\ UNCHANGED mPending
           [] m.type = "SCHEDULE_PAUSE" ->
                /\ mEngine' = [mEngine EXCEPT ![p] = EngineCall(p, "pause", 0, q)]
                /\ mPlayback' = [mPlayback EXCEPT ![p] = "paused"]
                /\ UNCHANGED mPending
           [] m.type = "SCHEDULE_STOP" ->
                /\ mEngine' = [mEngine EXCEPT ![p] = EngineCall(p, "stop", 0, q)]
                /\ mPlayback' = [mPlayback EXCEPT ![p] = "stopped"]
                /\ UNCHANGED mPending

ApplyControl(p, q, m) ==
    CASE m.type = "SCHEDULE_PLAY" ->
            IF ~mLoaded[p]
            THEN /\ mPending' = [mPending EXCEPT ![p] =
                       Some([isPlaying |-> TRUE,
                             seekPosition |-> m.seekPosition])]
                 /\ UNCHANGED <<mEngine, mPlayback>>
            ELSE /\ mEngine' = [mEngine EXCEPT ![p] =
                       EngineCall(p, "schedulePlay", m.seekPosition, q)]
                 /\ mPlayback' = [mPlayback EXCEPT ![p] = "playing"]
                 /\ UNCHANGED mPending
       [] m.type = "SCHEDULE_PAUSE" ->
            /\ mEngine' = [mEngine EXCEPT ![p] = EngineCall(p, "pause", 0, q)]
            /\ mPlayback' = [mPlayback EXCEPT ![p] = "paused"]
            /\ UNCHANGED mPending
       [] m.type = "SCHEDULE_STOP" ->
            /\ mEngine' = [mEngine EXCEPT ![p] = EngineCall(p, "stop", 0, q)]
            /\ mPlayback' = [mPlayback EXCEPT ![p] = "stopped"]
            /\ UNCHANGED mPending

\* handleMessage, cases GRANT_MASTER, REVOKE_MASTER, REQUEST_MASTER
flagAfter(p, m) ==
    CASE m.type = "GRANT_MASTER" ->
            IF grantApplies(m.peerId, p) THEN TRUE ELSE isMaster[p]
       [] m.type = "REVOKE_MASTER" -> FALSE
       [] OTHER -> isMaster[p]

\* conn.on('data') -> handleMessage(data, conn.peer): participant p handles
\* the oldest message in flight from q.
Receive(p, q) ==
    /\ <<q, p>> \in Pairs
    /\ chan[<<q, p>>] # <<>>
    /\ LET m == Head(chan[<<q, p>>])
       IN  /\ chan' = [chan EXCEPT ![<<q, p>>] = Tail(@)]
           /\ IF IsControl(m)
              THEN /\ ApplyControl(p, q, m)
                   /\ UNCHANGED isMaster
              ELSE /\ isMaster' = [isMaster EXCEPT ![p] = flagAfter(p, m)]
                   /\ UNCHANGED <<mPending, mEngine, mPlayback>>
    /\ UNCHANGED <<mLoaded, conns, table, sent, hostOpens>>
    /\ UNCHANGED otherVarsOfMaster

NextMaster ==
    \/ HostOpen
    \/ \E g \in Guests : Connect(g)
    \/ \E p \in Participants : Loaded(p)
    \/ \E p \in Participants, seek \in Seeks : PressPlay(p, seek)
    \/ \E p \in Participants : PressPause(p)
    \/ \E p \in Participants : PressStop(p)
    \/ \E p \in Participants, seek \in Seeks : SeekTo(p, seek)
    \/ \E g \in Guests : GrantMaster(g)
    \/ \E g \in Guests : RequestMaster(g)
    \/ \E q \in Participants, p \in Participants :
          \E m \in ForeignMasterMessages(p) : ForeignSend(q, p, m)
    \/ \E p \in Participants, q \in Participants : Receive(p, q)

SpecMaster == InitJoin /\ [][NextMaster]_vars

\* every message in flight on an open channel is eventually handled
FairMaster == WF_vars(\E p \in Participants, q \in Participants : Receive(p, q))

SpecMasterFair == SpecMaster /\ FairMaster

(***************************************************************************)
(* SpecDestroy: a guest whose connection opens (the host streams its       *)
(* payload, the guest starts probing a host that does not answer) and      *)
(* which is then destroyed, with timers and a decode possibly pending.     *)
(***************************************************************************)

\* connectToHostOnce, conn.on('open'): syncEngine.startSync
SyncOnOpen ==
    /\ connected /\ closes = 0
    /\ starts = 0
    /\ StartSync

\* PeerManager.destroy(): syncEngine.stopSync(), every connection closed
\* and the table cleared, the peer destroyed, the store reset to its
\* initial state.  audioChunks, audioMeta, pendingPlaybackState, the probe
\* timeouts and the AudioEngine are not touched.
Destroy ==
    /\ connected
    /\ closes < MaxCloses
    \* syncEngine.stopSync()
    /\ intervals' = clearedIntervals
    /\ intervalId' = Null
    /\ samples' = <<>>
    /\ running' = FALSE
    /\ stops' = stops + 1
    \* connections.forEach(conn => conn.close()); connections.clear()
    /\ connected' = FALSE
    /\ closes' = closes + 1
    /\ net' = {}
    \* useMeshBeatStore.getState().reset()
    /\ setPlaybackState("stopped")
    /\ audioFile' = Null
    /\ UNCHANGED <<audioChunks, audioMeta, pendingPlaybackState, isReady,
                   player, lastPlay, decoding, arrivals, handoffs>>
    /\ UNCHANGED <<sNow, timeouts, listeners, sReq, sResp, probes, starts,
                   sLog, estimate, shifted>>
    /\ UNCHANGED <<hostVarsOfMain, extras, superseded, rejections, chunkVars,
                   playVars, offsetVars, retryVars, lastVars>>

InitDestroy == InitJoin

NextDestroy ==
    \/ SyncOnOpen
    \/ \E t \in intervals : IntervalFire(t)
    \/ \E t \in timeouts : TimeoutFire(t)
    \/ SyncTickStep
    \/ \E n \in FileSizes : StreamOnOpen(n)
    \/ DeliverNext
    \/ \E i \in 1..Len(decoding) : DecodeResolved(i)
    \/ Destroy

SpecDestroy == InitDestroy /\ [][NextDestroy]_vars

(***************************************************************************)
(* SpecGuest: one call of initAsGuest on the guest, attempt by attempt.    *)
(* Each initAsGuestOnce creates a peer and arms its 3000 ms timer; the     *)
(* peer's 'open', the channel's 'open', 'error' and 'close' and the timer  *)
(* fire in any order the network allows.  A channel that opens starts the  *)
(* clock sync, whose timers run as in SpecSync.                            *)
(***************************************************************************)
GuestErrors == {"peer-unavailable", "network"}

\* the channel the sync engine was handed is open
LinkIsOpen == \E k \in 1..Len(tries) : tries[k].conn = "open"

\* resetState(): connections.clear(), peer.destroy() -- which closes the
\* peer's open channel, whose 'close' handler sets the status
resetTries ==
    [k \in 1..Len(tries) |->
        [tries[k] EXCEPT !.peer = "destroyed",
                         !.conn = IF @ = "open" THEN "closed" ELSE @]]

\* initAsGuestOnce up to the return of its promise
initAsGuestOnce ==
    /\ tries' = Append(resetTries, [timer |-> "armed", peer |-> "new",
                                    conn |-> "none", settled |-> FALSE])
    /\ conns' = [conns EXCEPT !["g1"] = {}]
    /\ status' = IF LinkIsOpen THEN "disconnected" ELSE status

\* reject(error) of attempt k's promise: withRetry's catch if the promise was
\* pending, nothing otherwise
rejectAttempt(k, error) ==
    IF tries[k].settled
    THEN UNCHANGED retryVars
    ELSE /\ lastError' = Some(error)
         /\ IF mayRetry(attempt)
            THEN /\ rPc' = "delay"
                 /\ rLog' = Append(rLog, [kind |-> "fail", what |-> error])
                 /\ UNCHANGED <<attempt, outcome>>
            ELSE /\ attempt' = attempt + 1
                 /\ LoopOrThrow(attempt + 1,
                                Append(rLog, [kind |-> "fail", what |-> error]))

\* resolve() of attempt k's promise
resolveAttempt(k) ==
    IF tries[k].settled
    THEN UNCHANGED retryVars
    ELSE /\ rPc' = "resolved"
         /\ outcome' = Some([kind |-> "value", what |-> RetryValue("guest")])
         /\ rLog' = Append(rLog, [kind |-> "ok", what |-> attempt])
         /\ UNCHANGED <<attempt, lastError>>

guestRest == <<firstVars, linkVars, joinVars, isMaster, mPlayback, mLoaded,
               mPending, mEngine, table, chan, sent, hostOpens>>

\* PeerManager.initAsGuest: withRetry enters its loop
InitAsGuest ==
    /\ rPc = "idle"
    /\ attempt' = 0
    /\ lastError' = Null
    /\ LoopOrThrow(0, <<[kind |-> "call", what |-> "guest"]>>)
    /\ initAsGuestOnce
    /\ UNCHANGED <<ringVars, syncVars, guestRest>>

\* withRetry: the 500 ms delay is over, the next attempt starts
RetryElapses ==
    /\ rPc = "delay"
    /\ attempt' = attempt + 1
    /\ lastError' = lastError
    /\ LoopOrThrow(attempt + 1,
                   Append(rLog, [kind |-> "wait", what |-> attempt]))
    /\ initAsGuestOnce
    /\ UNCHANGED <<ringVars, syncVars, guestRest>>

\* the setTimeout(..., CONNECTION_TIMEOUT) callback
ConnectionTimeout(k) ==
    /\ tries[k].timer = "armed"
    /\ tries' = [tries EXCEPT ![k].timer = "fired", ![k].settled = TRUE]
    /\ status' = "error"
    /\ rejectAttempt(k, "timeout")
    /\ UNCHANGED <<conns, ringVars, syncVars, guestRest>>

\* this.peer.on('open'): the status, and peer.connect(hostPeerId)
PeerOpen(k) ==
    /\ tries[k].peer = "new"
    /\ tries' = [tries EXCEPT ![k].peer = "open", ![k].conn = "pending"]
    /\ status' = "connecting"
    /\ UNCHANGED <<conns, retryVars, ringVars, syncVars, guestRest>>

\* conn.on('open')
ConnOpen(k) ==
    /\ tries[k].peer = "open" /\ tries[k].conn = "pending"
    /\ tries' = [tries EXCEPT ![k].conn = "open",
                              ![k].timer = IF @ = "armed" THEN "cleared" ELSE @,
                              ![k].settled = TRUE]
    /\ conns' = [conns EXCEPT !["g1"] = @ \cup {"host"}]
    /\ status' = "connected"
    \* syncEngine.startSync(conn, ...)
    /\ starts < MaxStarts /\ probes < MaxProbes
    /\ starts' = starts + 1
    /\ samples' = <<>>
    /\ listeners' = performSyncListeners(starts + 1)
    /\ sReq' = performSyncRequests
    /\ timeouts' = performSyncTimeouts
    /\ probes' = probes + 1
    /\ intervals' = clearedIntervals
                        \cup {[id |-> starts + 1, due |-> sNow + SYNC_INTERVAL]}
    /\ intervalId' = Some(starts + 1)
    /\ running' = TRUE
    /\ resolveAttempt(k)
    /\ UNCHANGED <<sNow, sResp, stops, sLog, estimate, shifted, guestRest>>

\* conn.on('error') / this.peer.on('error')
AttemptError(k, error) ==
    /\ tries[k].peer \in {"new", "open"}
    /\ tries[k].conn # "open"
    /\ tries' = [tries EXCEPT ![k].timer = IF @ = "armed" THEN "cleared" ELSE @,
                              ![k].settled = TRUE]
    /\ status' = "error"
    /\ rejectAttempt(k, error)
    /\ UNCHANGED <<conns, ringVars, syncVars, guestRest>>

\* conn.on('close')
ConnClose(k) ==
    /\ tries[k].conn = "open"
    /\ tries' = [tries EXCEPT ![k].conn = "closed"]
    /\ conns' = [conns EXCEPT !["g1"] = @ \ {"host"}]
    /\ status' = "disconnected"
    /\ UNCHANGED <<retryVars, ringVars, syncVars, guestRest>>

InitGuest == FirstIdle /\ MoreIdle

NextGuest ==
    \/ InitAsGuest
    \/ RetryElapses
    \/ \E k \in 1..Len(tries) : ConnectionTimeout(k)
    \/ \E k \in 1..Len(tries) : PeerOpen(k)
    \/ \E k \in 1..Len(tries) : ConnOpen(k)
    \/ \E k \in 1..Len(tries), error \in GuestErrors : AttemptError(k, error)
    \/ \E k \in 1..Len(tries) : ConnClose(k)

SpecGuest == InitGuest /\ [][NextGuest]_vars

\* SpecGuestSync: a first attempt that goes well, the clock sync it starts
\* (timers, the host's answers) and the link closing later.
NextGuestSync ==
    \/ InitAsGuest
    \/ \E k \in 1..Len(tries) : PeerOpen(k)
    \/ \E k \in 1..Len(tries) : ConnOpen(k)
    \/ \E k \in 1..Len(tries) : ConnClose(k)
    \/ \E t \in intervals : IntervalFire(t)
    \/ \E t \in timeouts : TimeoutFire(t)
    \/ \E request \in sReq : LinkIsOpen /\ HandleSyncRequest(request)
    \/ \E response \in sResp : LinkIsOpen /\ HandleResponse(response)
    \/ SyncTickStep

SpecGuestSync == InitGuest /\ [][NextGuestSync]_vars

(***************************************************************************)
(* Properties.                                                             *)
(***************************************************************************)
Last(seq) == seq[Len(seq)]
SessionOpen == audioChunks # Null /\ audioMeta # Null
\* the indexes 0..K-1 of a K-chunk transfer whose slot is empty
MissingIn(slots, totalChunks) ==
    {i \in 0..(totalChunks - 1) : i + 1 > Len(slots) \/ slots[i + 1] = undefined}
\* the length of chunk i of a size-byte payload
ChunkLen(size, i) == Min(CHUNK_SIZE, size - i * CHUNK_SIZE)
SentinelInFlight == \E m \in net : m.type = "AUDIO_COMPLETE"

\* C1 (as claimed): within one transfer session, once the chunk-count
\* threshold has triggered a reassembly, no reassembly triggered by the
\* completion sentinel follows, whether the decode is pending or finished.
C1_NoSentinelReassemblyAfterThreshold ==
    \A i, j \in 1..Len(handoffs) :
        (i < j /\ handoffs[i].via = "threshold") => handoffs[j].via # "sentinel"

\* C2 (as claimed): for every payload length, 0 included, reassembling the
\* chunks of a payload gives back the payload.
C2_RoundTripEveryLength ==
    tPc = "done" => (tResult.ok /\ tResult.buffer = tBuffer)

\* C2 (amended): for every payload of at least one byte, reassembling its
\* chunks gives back the payload byte for byte; the empty payload has no
\* chunk and its reassembly throws "No valid audio chunks received".
C2_RoundTripNonEmpty ==
    tPc = "done" =>
        IF Len(tBuffer) >= 1
        THEN tResult.ok /\ tResult.buffer = tBuffer
        ELSE tChunks = <<>> /\ tResult = NoValidChunks

\* C2 witness: a payload of one chunk size plus one byte went the round trip.
C2_Witness ==
    /\ tPc = "done"
    /\ Len(tBuffer) = CHUNK_SIZE + 1
    /\ Len(tChunks) = 2
    /\ tResult.ok
    /\ tResult.buffer = tBuffer

\* C3: whenever every slot 0..K-1 of the open session is filled, whatever
\* the order the chunks came in, a reassembly triggered by the threshold has
\* already handed over the payload, and that payload is the sender's bytes
\* in index order: the step that filled the last slot did it, sentinel or not.
C3_ThresholdReassemblesInIndexOrder ==
    (/\ SessionOpen
     /\ Len(audioChunks[1]) = audioMeta[1].totalChunks
     /\ MissingIn(audioChunks[1], audioMeta[1].totalChunks) = {})
    => \E k \in 1..Len(handoffs) :
           /\ handoffs[k].via = "threshold"
           /\ handoffs[k].buffer = streams[audioMeta[1].name]

\* C3 witness: three chunks came in reverse order, the threshold handed the
\* payload over, and the sentinel has not arrived yet.
C3_Witness ==
    /\ SessionOpen
    /\ arrivals = <<2, 1, 0>>
    /\ Len(handoffs) = 1
    /\ handoffs[1].via = "threshold"
    /\ handoffs[1].buffer = streams[1]
    /\ SentinelInFlight

\* C4: when the sentinel is handled for an open session of K > 1 chunks with
\* exactly one slot empty, the payload is reassembled and handed over, and
\* its length is the declared size minus the length of the missing chunk;
\* when it is handled with no slot filled, nothing is reassembled and the
\* playback state becomes stopped.
C4_SentinelWithGaps ==
    [][\A m \in net :
        (m.type = "AUDIO_COMPLETE" /\ SessionOpen /\ HandleMessage(m)) =>
            LET slots == audioChunks[1]
                meta == audioMeta[1]
                missing == MissingIn(slots, meta.totalChunks)
            IN  /\ (/\ meta.totalChunks > 1
                    /\ Len(slots) <= meta.totalChunks
                    /\ Cardinality(missing) = 1)
                   => /\ Len(handoffs') = Len(handoffs) + 1
                      /\ Len(decoding') = Len(decoding) + 1
                      /\ Last(handoffs').via = "sentinel"
                      /\ Last(decoding').buffer = Last(handoffs').buffer
                      /\ Len(Last(handoffs').buffer) =
                            meta.size - ChunkLen(meta.size,
                                                 CHOOSE i \in missing : TRUE)
                /\ receivedCount(slots) = 0
                   => /\ playbackState' = "stopped"
                      /\ handoffs' = handoffs
                      /\ decoding' = decoding
      ]_vars

\* C4 witness: the sentinel came first to an empty session (state stopped,
\* no host command was involved), then two of three chunks came and the
\* sentinel, delivered again, handed over a payload one chunk short.
C4_Witness ==
    /\ hostPlayback = "playing"
    /\ pendingPlaybackState = Null
    /\ trace = <<"stopped", "loading", "stopped">>
    /\ Len(decoding) = 1
    /\ Len(handoffs) = 1
    /\ handoffs[1].via = "sentinel"
    /\ handoffs[1].meta.totalChunks = 3
    /\ Cardinality(MissingIn(handoffs[1].slots, 3)) = 1
    /\ Len(handoffs[1].buffer) < handoffs[1].meta.size

\* C5: when the decode of a payload reassembled by the threshold resolves,
\* and since the guest's start in stopped only the metadata and the chunks
\* took effect (state stopped, loading; nothing queued), the playback states
\* gone through are exactly stopped, loading, stopped and the stored payload
\* is the host's payload.
C5_LoadingThenStopped ==
    [][\A i \in 1..Len(decoding) :
        (/\ DecodeResolved(i)
         /\ trace = <<"stopped", "loading">>
         /\ pendingPlaybackState = Null
         /\ \E k \in 1..Len(handoffs) :
                /\ handoffs[k].via = "threshold"
                /\ handoffs[k].buffer = decoding[i].buffer)
        => /\ trace' = <<"stopped", "loading", "stopped">>
           /\ playbackState' = "stopped"
           /\ audioFile' # Null
           /\ audioFile'[1].buffer = streams[1]
      ]_vars

\* C5 witness: chunk 2, then chunk 0, then chunk 1 of a three-chunk payload
\* arrived, the decode resolved, and the whole payload is stored.
C5_Witness ==
    /\ arrivals = <<2, 0, 1>>
    /\ trace = <<"stopped", "loading", "stopped">>
    /\ playbackState = "stopped"
    /\ audioFile # Null
    /\ audioFile[1].buffer = streams[1]
    /\ Len(streams[1]) = MaxLen
    /\ decoding = <<>>

\* the real-time instant at which device d's player starts
RealStart(d) == sched[d].now + sched[d].delay + pageEpoch[d]

\* C6 (as claimed): a guest whose clock offset is the true offset and that
\* receives the play command before the master's start instant starts its
\* player at the same real-time instant as the master.
C6_SameInstant ==
    (/\ sched["M"].called
     /\ sched["G"].called
     /\ clockOffset = TrueOffset
     /\ sched["G"].at < RealStart("M"))
    => /\ sched["G"].started
       /\ RealStart("G") = RealStart("M")

\* C7: schedulePlay with a local deadline (scheduledTime - clockOffset) still
\* in the future starts the player after a delay > 0 equal to the deadline
\* minus now, at exactly seekPosition.
C7_FutureDeadline ==
    \A d \in {"M", "G"} :
        LET c == sched[d]
            deadline == c.scheduledTime - c.clockOffset
        IN  (c.called /\ deadline > c.now)
            => /\ c.started
               /\ c.delay > 0
               /\ c.delay = deadline - c.now
               /\ c.offset = c.seekPosition

\* C7 witness: the guest, with a clock offset other than zero, scheduled a
\* start at a deadline still ahead of it.
C7_Witness ==
    /\ sched["G"].called
    /\ sched["G"].clockOffset # 0
    /\ sched["G"].scheduledTime - sched["G"].clockOffset > sched["G"].now
    /\ sched["G"].delay > 0

\* C8 (as claimed): schedulePlay with a local deadline passed by X ms starts
\* at once at seekPosition + X when that is within the duration, and does
\* not start the player when it is at or beyond the duration.
C8_LateStartCatchesUp ==
    \A d \in {"M", "G"} :
        LET c == sched[d]
            lateByX == c.now - (c.scheduledTime - c.clockOffset)
        IN  (c.called /\ lateByX > 0)
            => IF c.seekPosition + lateByX < duration
               THEN c.started /\ c.delay = 0
                    /\ c.offset = c.seekPosition + lateByX
               ELSE ~c.started

\* C9: for t1 <= t2 <= t3 <= t4 with an offset of at most 10000 ms in size,
\* calculateOffset returns roundTripTime = (t4-t1)-(t3-t2) and
\* clockOffset = ((t2-t1)+(t3-t4))/2 exactly.
C9_ClosedForm ==
    LET t1 == oStamps[1]
        t2 == oStamps[2]
        t3 == oStamps[3]
        t4 == oStamps[4]
    IN  (/\ oPc = "done"
         /\ t1 <= t2 /\ t2 <= t3 /\ t3 <= t4
         /\ Abs((t2 - t1) + (t3 - t4)) <= 2 * 10000)
        => /\ oSample.roundTripTime = (t4 - t1) - (t3 - t2)
           /\ 2 * oSample.clockOffset.num =
                  ((t2 - t1) + (t3 - t4)) * oSample.clockOffset.den

\* C9 witness: ordered timestamps with an offset that is not a whole number.
C9_Witness ==
    /\ oPc = "done"
    /\ oStamps = <<1000, 1050, 1055, 1120>>
    /\ oSample.roundTripTime = 115
    /\ oSample.clockOffset = [num |-> -15, den |-> 2]

\* C10 (as claimed): t1=1000, t2=1050, t3=1060, t4=1120 gives the sample
\* roundTripTime = 50, clockOffset = 15.
C10_ScenarioAsClaimed ==
    (oPc = "done" /\ oStamps = <<1000, 1050, 1060, 1120>>)
    => (oSample.roundTripTime = 50 /\ oSample.clockOffset = Whole(15))

\* C10 (amended): t1=1000, t2=1050, t3=1060, t4=1120 gives the sample
\* roundTripTime = 110, clockOffset = -5.
C10_Scenario ==
    (oPc = "done" /\ oStamps = <<1000, 1050, 1060, 1120>>)
    => (oSample.roundTripTime = 110 /\ oSample.clockOffset = Whole(-5))

\* C10 witness: the sample of that round trip has been computed.
C10_Witness ==
    oPc = "done" /\ oStamps = <<1000, 1050, 1060, 1120>>

\* C11: sanity policy of a sample.  A computed offset of more than 10000 ms
\* in size is recorded as 0 with the round-trip time kept; a negative
\* computed round-trip time is recorded as its absolute value; every call
\* returns a sample (none is rejected, no error is raised).
C11_SanityPolicy ==
    LET rawRtt == (oStamps[4] - oStamps[1]) - (oStamps[3] - oStamps[2])
        rawTwiceOffset == (oStamps[2] - oStamps[1]) + (oStamps[3] - oStamps[4])
    IN  oPc = "done" =>
          /\ DOMAIN oSample = {"roundTripTime", "clockOffset"}
          /\ oSample.roundTripTime = (IF rawRtt < 0 THEN -rawRtt ELSE rawRtt)
          /\ (rawTwiceOffset > 20000 \/ rawTwiceOffset < -20000)
                => oSample.clockOffset = Whole(0)
          /\ (rawTwiceOffset <= 20000 /\ rawTwiceOffset >= -20000)
                => 2 * oSample.clockOffset.num
                       = rawTwiceOffset * oSample.clockOffset.den

\* C11 witness: a round trip whose computed offset is -15000 and whose
\* computed round-trip time is -30000: recorded as offset 0, time 30000.
C11_Witness ==
    /\ oPc = "done"
    /\ oStamps = <<30000, 0, 30000, 30000>>
    /\ oSample.roundTripTime = 30000
    /\ oSample.clockOffset = Whole(0)

\* C12: the sample ring never holds more than 10 samples, whatever the
\* sequence of resets (startSync, stopSync) and sample arrivals; a sample
\* added to a full ring goes to the end, the oldest sample is the one
\* removed and the other nine keep their order.
C12_RingBoundedFifo ==
    [][/\ Len(samples') <= 10
       /\ \A r \in RingSamples :
             (AddSampleStep(r) /\ Len(samples) = 10)
             => /\ Len(samples') = 10
                /\ samples'[10] = r
                /\ \A i \in 1..9 : samples'[i] = samples[i + 1]]_vars

\* C12 witness: a full ring after an eviction, the evicted sample differing
\* from the one then oldest and from the one just added.
C12_Witness ==
    /\ Len(samples) = 10
    /\ shifted # Null
    /\ shifted[1] # samples[1]
    /\ shifted[1] # samples[10]
    /\ samples[1] # samples[10]

\* the position of sample i of the ring once the ring is sorted by
\* roundTripTime, samples of equal roundTripTime keeping their order
RankByRtt(ring, i) ==
    Cardinality({j \in 1..Len(ring) :
        \/ ring[j].roundTripTime < ring[i].roundTripTime
        \/ ring[j].roundTripTime = ring[i].roundTripTime /\ j < i})
\* the samples left once floor(0.2 * n) are dropped from each end
KeptAfterTrim(ring) ==
    LET n == Len(ring)
        drop == (2 * n) \div 10
    IN  {i \in 1..n : RankByRtt(ring, i) >= drop
                      /\ RankByRtt(ring, i) < n - drop}
RECURSIVE RttOver(_, _)
RttOver(ring, S) ==
    IF S = {} THEN 0
    ELSE LET i == CHOOSE x \in S : TRUE
         IN  ring[i].roundTripTime + RttOver(ring, S \ {i})
RECURSIVE TwiceOffsetOver(_, _)
TwiceOffsetOver(ring, S) ==
    IF S = {} THEN 0
    ELSE LET i == CHOOSE x \in S : TRUE
             o == ring[i].clockOffset
         IN  (IF o.den = 1 THEN 2 * o.num ELSE o.num)
             + TwiceOffsetOver(ring, S \ {i})

\* C13: the estimate is the trimmed mean of the ring: of the n samples
\* sorted by roundTripTime, floor(0.2 * n) are dropped from each end (2 and
\* 2 when n = 10) and roundTripTime and clockOffset are each averaged over
\* the rest; the estimate of an empty ring is {0, 0}.
C13_TrimmedMean ==
    estimate # Null =>
        LET e == estimate[1]
            kept == KeptAfterTrim(samples)
            k == Cardinality(kept)
        IN  /\ Len(samples) = 10 => k = 6
            /\ IF Len(samples) = 0
               THEN e.roundTripTime.num = 0 /\ e.clockOffset.num = 0
               ELSE /\ k > 0
                    /\ e.roundTripTime.num * k
                           = RttOver(samples, kept) * e.roundTripTime.den
                    /\ e.clockOffset.num * 2 * k
                           = TwiceOffsetOver(samples, kept) * e.clockOffset.den

\* C13 witness: a full ring of seven samples of 20 ms and three of 110 ms:
\* two of each are dropped and the round-trip estimate is 210/6 = 35 ms.
C13_Witness ==
    /\ Len(samples) = 10
    /\ Cardinality({i \in 1..10 : samples[i].roundTripTime = 110}) = 3
    /\ estimate # Null
    /\ estimate[1].roundTripTime = [num |-> 210, den |-> 6]

\* C14 (as claimed): a second startSync on the same link fully supersedes
\* the previous run: exactly one interval timer is active afterwards, no
\* response handler of the previous run acts any more, and each sync
\* response received adds at most one sample to the ring.
C14_RestartSupersedes ==
    /\ (running /\ starts >= 2) => Cardinality(intervals) = 1
    /\ \A n \in 1..Len(sLog) :
          sLog[n].run >= 2 /\ sLog[n].running
          => /\ Len(sLog[n].by) <= 1
             /\ \A i \in 1..Len(sLog[n].by) : sLog[n].by[i].run = sLog[n].run

\* C15 (as claimed): once stopSync has returned, no response adds a sample
\* to the ring or invokes the update callback, the response to a probe that
\* was pending at the stop included.
C15_NoSampleAfterStop ==
    \A n \in 1..Len(sLog) : ~sLog[n].running => sLog[n].by = <<>>

\* C16 (as claimed): in one uninterrupted run, a response arriving more than
\* 1000 ms after its request adds no sample, and every response arriving
\* within 1000 ms of its request adds exactly one.
C16_LateResponseAbandoned ==
    (starts <= 1 /\ stops = 0) =>
        \A n \in 1..Len(sLog) :
            /\ sLog[n].age > 1000 => sLog[n].by = <<>>
            /\ sLog[n].age < 1000 => Len(sLog[n].by) = 1

\* in one uninterrupted run in which no response has been late, every
\* response is handled by the handler of its own probe, once
SyncSanity_TimelyRun ==
    (starts <= 1 /\ stops = 0
        /\ \A n \in 1..Len(sLog) : sLog[n].age < 1000
        /\ \A m \in sReq \cup sResp : sNow - m.t1 < 1000) =>
        \A n \in 1..Len(sLog) :
            /\ Len(sLog[n].by) = 1
            /\ sLog[n].by[1].probe = sLog[n].probe

\* the positions of the log holding an event of the given kind
LogOf(kind) == {n \in 1..Len(rLog) : rLog[n].kind = kind}

\* C17: connection establishment runs the single attempt at most 3 times;
\* no attempt follows a success; a delay comes only between a failed
\* attempt and the next attempt; after the third failure the call rejects
\* with the error of the last attempt.
C17_RetryPolicy ==
    /\ Cardinality(LogOf("attempt")) <= 3
    /\ \A n \in LogOf("ok") : n = Len(rLog) /\ rPc = "resolved"
    /\ \A n \in LogOf("wait") :
          /\ rLog[n - 1].kind = "fail"
          /\ n < Len(rLog) /\ rLog[n + 1].kind = "attempt"
    /\ rPc = "resolved" <=> LogOf("ok") # {}
    /\ rPc = "rejected" <=> Cardinality(LogOf("fail")) = 3
    /\ rPc = "rejected" =>
          /\ rLog[Len(rLog)].kind = "fail"
          /\ outcome = Some([kind |-> "error", what |-> rLog[Len(rLog)].what])

\* C17 witness: three failed attempts with two delays between them, the
\* call rejected with the third error, which differs from the first two.
C17_Witness ==
    /\ rPc = "rejected"
    /\ Cardinality(LogOf("attempt")) = 3
    /\ Cardinality(LogOf("wait")) = 2
    /\ rLog[3].what = "timeout"
    /\ rLog[6].what = "timeout"
    /\ outcome = Some([kind |-> "error", what |-> "network"])

\* a play instruction: SCHEDULE_PLAY, or a snapshot with isPlaying true
IsPlayInstruction(m) ==
    \/ m.type = "SCHEDULE_PLAY"
    \/ m.type = "PLAYBACK_STATE" /\ m.isPlaying

\* C18: a play instruction received while the audio pipeline is not ready is
\* stored as the single pending intent, replacing any earlier one, and is
\* not applied; when the payload finishes loading the pending intent is
\* consumed once: schedulePlay is called with a fresh deadline (now plus the
\* lead time) and the stored seek position, the state becomes playing and
\* the pending intent is cleared, so that a later load schedules nothing.
C18_PendingIntent ==
    [][/\ \A m \in net :
             (IsPlayInstruction(m) /\ ~isReady /\ HandleMessage(m))
             => /\ pendingPlaybackState' =
                       Some([isPlaying |-> TRUE, seekPosition |-> m.seekPosition])
                /\ lastPlay' = lastPlay
                /\ playbackState' = playbackState
       /\ \A i \in 1..Len(decoding) :
             DecodeResolved(i)
             => IF pendingPlaybackState # Null /\ pendingPlaybackState[1].isPlaying
                THEN /\ lastPlay' =
                            Some([scheduledTime |->
                                      "performance.now() + SCHEDULE_BUFFER",
                                  seekPosition |->
                                      pendingPlaybackState[1].seekPosition])
                     /\ playbackState' = "playing"
                     /\ pendingPlaybackState' = Null
                ELSE lastPlay' = lastPlay /\ playbackState' = "stopped"]_vars

\* C18 witness: a play instruction with seek position 7 was queued and then
\* consumed when the payload finished loading.
C18_Witness ==
    /\ lastPlay = Some([scheduledTime |-> "performance.now() + SCHEDULE_BUFFER",
                        seekPosition |-> 7])
    /\ playbackState = "playing"
    /\ pendingPlaybackState = Null
    /\ audioFile # Null

\* C19 (as claimed): when the link closes, the transfer session open for it
\* is discarded: while the link is closed no chunk slots and no metadata
\* exist for it.
C19_CloseDiscardsSession ==
    ~connected => (audioChunks = Null /\ audioMeta = Null)

C21_ThresholdOnlyWhenFull ==
    \A h \in 1..Len(handoffs) :
        handoffs[h].via = "threshold"
        => MissingIn(handoffs[h].slots, handoffs[h].meta.totalChunks) = {}

\* C22 (as claimed): once a transfer has been settled - the threshold or the
\* sentinel triggered its reassembly, the sentinel found no chunk, or its
\* decode failed - no session remains open for the link, so that a chunk
\* delivered afterwards finds nothing to be stored in.
C22_SettledLeavesNoSession ==
    [][/\ \A m \in net :
             (/\ SessionOpen
              /\ HandleMessage(m)
              /\ \/ m.type = "AUDIO_COMPLETE"
                 \/ m.type = "AUDIO_CHUNK" /\ Len(handoffs') > Len(handoffs))
             => ~SessionOpen'
       /\ \A i \in 1..Len(decoding) : DecodeRejected(i) => ~SessionOpen'
      ]_vars

\* C23: when the decode of a reassembled payload is rejected, the playback
\* state becomes stopped and the session (slots and metadata) is discarded;
\* the handler goes on: for a transfer received after a rejection, filling
\* every slot hands over exactly the sender's payload, and when its decode
\* resolves the payload is stored, the pipeline is ready, the state is
\* stopped and the session is closed.
C23_RejectionIsolated ==
    /\ [][\A i \in 1..Len(decoding) :
             RejectOnLink(i)
             => /\ playbackState' = "stopped"
                /\ audioChunks' = Null
                /\ audioMeta' = Null
                /\ net' = net]_vars
    /\ []((/\ rejections > 0
           /\ SessionOpen
           /\ Len(audioChunks[1]) = audioMeta[1].totalChunks
           /\ MissingIn(audioChunks[1], audioMeta[1].totalChunks) = {})
          => \E k \in 1..Len(handoffs) :
                 /\ handoffs[k].via = "threshold"
                 /\ handoffs[k].buffer = streams[audioMeta[1].name])
    /\ [][\A i \in 1..Len(decoding) :
             (/\ rejections > 0
              /\ DecodeResolved(i)
              /\ decoding[i].buffer = streams[decoding[i].savedMeta.name])
             => /\ audioFile' = Some([name |-> decoding[i].savedMeta.name,
                                      size |-> decoding[i].savedMeta.size,
                                      buffer |-> streams[decoding[i].savedMeta.name]])
                /\ isReady'
                /\ playbackState' = "stopped"
                /\ ~SessionOpen']_vars

\* C23 witness: the decode of the first transfer was rejected and its
\* session discarded before the second metadata came; the second transfer
\* was then reassembled once, at its threshold, decoded and stored.
C23_Witness ==
    /\ rejections = 1
    /\ Len(streams) = 2
    /\ superseded = Null
    /\ Len(handoffs) = 1
    /\ handoffs[1].via = "threshold"
    /\ handoffs[1].meta.name = 2
    /\ decoding = <<>>
    /\ audioFile # Null
    /\ audioFile[1].buffer = streams[2]
    /\ isReady
    /\ playbackState = "stopped"
    /\ trace = <<"stopped", "loading", "stopped", "loading", "stopped">>

\* Participant p handles, in this step, a message of one of the given types
\* that was the oldest in flight from q.
Handles(p, q, types) ==
    /\ <<q, p>> \in Pairs
    /\ chan[<<q, p>>] # <<>>
    /\ Head(chan[<<q, p>>]).type \in types
    /\ chan'[<<q, p>>] = Tail(chan[<<q, p>>])

SessionVars == <<audioChunks, audioMeta, pendingPlaybackState, decoding>>

\* C24: a received GrantMaster sets the receiver's master flag to true only
\* when its participantId is the receiver's own id and otherwise leaves the
\* flag as it was; a received RevokeMaster sets the receiver's flag to false;
\* neither changes any participant's playback state, audio pipeline, queued
\* intent or loaded payload, the peer table, the link table, or a transfer
\* session, and nobody else's flag changes.
C24_MasterMessagesOnlySetFlag ==
    [][\A p \in Participants, q \in Participants :
          Handles(p, q, {"GRANT_MASTER", "REVOKE_MASTER"}) =>
             LET m == Head(chan[<<q, p>>])
             IN  /\ m.type = "GRANT_MASTER" /\ m.peerId = p => isMaster'[p] = TRUE
                 /\ m.type = "GRANT_MASTER" /\ m.peerId # p =>
                        isMaster'[p] = isMaster[p]
                 /\ m.type = "REVOKE_MASTER" => isMaster'[p] = FALSE
                 /\ \A o \in Participants \ {p} : isMaster'[o] = isMaster[o]
                 /\ UNCHANGED <<mPlayback, mEngine, mPending, mLoaded>>
                 /\ UNCHANGED <<table, conns, connectedPeers>>
                 /\ UNCHANGED SessionVars]_vars

\* C24 witness: a guest that started playing as a non-master has since
\* handled the grant naming it: its flag is true, the other guest's flag is
\* still false, and it is still playing what it played before.
C24_Witness ==
    /\ isMaster["g1"] /\ ~isMaster["g2"] /\ ~isMaster["host"]
    /\ mPlayback["g1"] = "playing"
    /\ mEngine["g1"] # Null /\ ~mEngine["g1"][1].asMaster
    /\ "g2" \in table
    /\ \A pair \in Pairs : chan[pair] = <<>>

\* C25: a received play, pause or stop command has the same effect whether
\* the receiver's master flag is true or false: with a payload loaded, play
\* calls schedulePlay at the message's position and the state becomes
\* playing (without a payload the play is queued), pause pauses, stop stops;
\* and handling it leaves every master flag as it was.
C25_CommandsObeyedWhateverFlag ==
    [][\A p \in Participants, q \in Participants :
          Handles(p, q, {"SCHEDULE_PLAY", "SCHEDULE_PAUSE", "SCHEDULE_STOP"}) =>
             LET m == Head(chan[<<q, p>>])
                 did(call, seek) == Some([call |-> call, seek |-> seek,
                                          from |-> q, asMaster |-> isMaster[p]])
             IN  /\ isMaster' = isMaster
                 /\ m.type = "SCHEDULE_PLAY" /\ mLoaded[p] =>
                        /\ mEngine'[p] = did("schedulePlay", m.seekPosition)
                        /\ mPlayback'[p] = "playing"
                 /\ m.type = "SCHEDULE_PLAY" /\ ~mLoaded[p] =>
                        /\ mPending'[p] = Some([isPlaying |-> TRUE,
                                                seekPosition |-> m.seekPosition])
                        /\ mPlayback'[p] = mPlayback[p]
                 /\ m.type = "SCHEDULE_PAUSE" =>
                        /\ mEngine'[p] = did("pause", 0)
                        /\ mPlayback'[p] = "paused"
                 /\ m.type = "SCHEDULE_STOP" =>
                        /\ mEngine'[p] = did("stop", 0)
                        /\ mPlayback'[p] = "stopped"]_vars

\* C25 witness: one participant applied a received play while its own flag
\* was true, another applied the same command while its flag was false, and
\* the first one's flag is still true.
C25_Witness ==
    \E p \in Participants, o \in Participants :
        /\ mEngine[p] # Null /\ mEngine[o] # Null
        /\ mEngine[p][1].call = "schedulePlay" /\ mEngine[p][1].from \in Participants
        /\ mEngine[o][1].call = "schedulePlay" /\ mEngine[o][1].from \in Participants
        /\ mEngine[p][1].asMaster /\ ~mEngine[o][1].asMaster
        /\ mPlayback[p] = "playing" /\ mPlayback[o] = "playing"
        /\ isMaster[p]

\* C26: whenever a SchedulePlay, SchedulePause or ScheduleStop message is
\* put on a link by a participant (which only its local play, pause, stop
\* and seek actions do), that participant's master flag is true.
C26_OnlyMasterSendsCommands ==
    [][\A pair \in Pairs :
          (/\ Len(chan'[pair]) = Len(chan[pair]) + 1
           /\ IsControl(chan'[pair][Len(chan'[pair])]))
          => isMaster[pair[1]]]_vars

\* C26 witness: a guest that holds the flag has a command in flight to the
\* host, whose own flag is false although its player is loaded.
C26_Witness ==
    \E g \in Guests :
        /\ isMaster[g] /\ ~isMaster["host"] /\ mLoaded["host"]
        /\ chan[<<g, "host">>] # <<>>
        /\ IsControl(Head(chan[<<g, "host">>]))
        /\ mEngine[g] # Null /\ mEngine[g][1].from = "local"

\* The messages call c has put on its link so far, in wire order.
SentBy(c) == SelectSeq(wire[calls[c].link], LAMBDA m : m.call = c)

\* msgs is an initial part of: the metadata of the payload, its chunks
\* 0..n-1 in ascending order, the sentinel.
IsTransferPrefix(msgs, name, buffer) ==
    LET chunks == chunkArrayBuffer(buffer)
        n == Len(chunks)
    IN  /\ Len(msgs) <= n + 2
        /\ \A k \in 1..Len(msgs) :
              IF k = 1
              THEN /\ msgs[k].type = "AUDIO_META"
                   /\ msgs[k].name = name
                   /\ msgs[k].size = Len(buffer)
                   /\ msgs[k].totalChunks = n
              ELSE IF k <= n + 1
              THEN /\ msgs[k].type = "AUDIO_CHUNK"
                   /\ msgs[k].chunkIndex = k - 2
                   /\ msgs[k].totalChunks = n
                   /\ msgs[k].data = chunks[k - 1]
              ELSE msgs[k].type = "AUDIO_COMPLETE"

JoinCalls == {c \in 1..Len(calls) : calls[c].join}

\* Join call c has sent everything: the whole transfer and, last, a snapshot.
JoinServed(c) ==
    LET all == SentBy(c)
        n == Len(chunkArrayBuffer(streams[calls[c].name]))
    IN  /\ Len(all) = n + 3
        /\ all[n + 2].type = "AUDIO_COMPLETE"
        /\ all[n + 3].type = "PLAYBACK_STATE"

\* C27: when an inbound connection opens at the host, the link is
\* registered in the link table and the peer table.  With a payload loaded,
\* the link is sent that payload's transfer sequence (metadata, chunks
\* 0..n-1, sentinel) and after the sentinel one playback snapshot and no
\* second one, the snapshot's isPlaying being whether the host's state is
\* playing in the step that sends it; and the host does get that far.
\* With no payload loaded, the opening sends nothing and starts no stream,
\* and no snapshot is ever sent for it.
C27_JoinStreamThenOneSnapshot ==
    /\ [][\A l \in Links :
            (l \notin Range(hConnections) /\ l \in Range(hConnections')) =>
               /\ l \in connectedPeers'
               /\ IF hostFile = Null
                  THEN wire' = wire /\ calls' = calls /\ timers' = timers
                  ELSE /\ Len(calls') = Len(calls) + 1
                       /\ calls'[Len(calls')].join
                       /\ calls'[Len(calls')].link = l
                       /\ calls'[Len(calls')].name = hostFile[1].name
                       /\ Len(wire'[l]) > Len(wire[l])
                       /\ wire'[l][Len(wire[l]) + 1].type = "AUDIO_META"]_vars
    /\ [](\A c \in JoinCalls :
            LET all == SentBy(c)
                n == Len(chunkArrayBuffer(streams[calls[c].name]))
            IN  /\ IsTransferPrefix(SubSeq(all, 1, Min(Len(all), n + 2)),
                                    calls[c].name, streams[calls[c].name])
                /\ Len(all) <= n + 3
                /\ Len(all) = n + 3 => all[n + 3].type = "PLAYBACK_STATE"
                /\ calls[c].pc = "done" <=> Len(all) = n + 3)
    /\ [](\A l \in Links : \A k \in 1..Len(wire[l]) :
            wire[l][k].type = "PLAYBACK_STATE" => wire[l][k].call \in JoinCalls)
    /\ [][\A l \in Links : \A k \in (Len(wire[l]) + 1)..Len(wire'[l]) :
            wire'[l][k].type = "PLAYBACK_STATE" =>
               wire'[l][k].isPlaying = (hostPlayback = "playing")]_vars
    /\ (JoinCalls # {}) ~> (\A c \in JoinCalls : JoinServed(c))

\* C27 witness: the guest joined a playing host that had a payload of
\* several batches loaded; the link is registered, the call has ended, and
\* the last thing sent for it, after the sentinel, is the one snapshot,
\* which says playing.
C27_Witness ==
    /\ "g1" \in connectedPeers /\ "g1" \in Range(hConnections)
    /\ JoinCalls = {1} /\ calls[1].pc = "done"
    /\ Len(chunkArrayBuffer(streams[calls[1].name])) > YIELD_EVERY
    /\ JoinServed(1)
    /\ SentBy(1)[Len(SentBy(1))].isPlaying
    /\ hostPlayback = "playing"

\* The transfer messages (metadata, chunks, sentinel) call c has put on its
\* link so far, in wire order.
TransferSentBy(c) ==
    SelectSeq(SentBy(c), LAMBDA m : m.type \in {"AUDIO_META", "AUDIO_CHUNK",
                                                "AUDIO_COMPLETE"})

\* More calls than this cannot start: one per file for the link, and one for
\* its join.
CallIds == 1..(MaxFiles + 1)

\* C28: for every call of streamAudioToPeer, what the call has sent on its
\* link is at every moment an initial part of: one metadata message whose
\* chunk count is the number of chunks of the payload, then the chunks with
\* indices 0, 1, .., n-1 in that order, each once and each carrying its own
\* bytes, then one sentinel; the call has ended exactly when the whole
\* sequence, sentinel included, is out; every call does end; and every
\* transfer message on a link belongs to a call.
C28_StreamIsMetaChunksSentinel ==
    /\ [](\A c \in 1..Len(calls) :
            LET sentSoFar == TransferSentBy(c)
                n == Len(chunkArrayBuffer(streams[calls[c].name]))
            IN  /\ IsTransferPrefix(sentSoFar, calls[c].name,
                                    streams[calls[c].name])
                /\ calls[c].pc = "done" <=> Len(sentSoFar) = n + 2)
    /\ [](\A l \in Links : \A k \in 1..Len(wire[l]) :
            wire[l][k].type \in {"AUDIO_META", "AUDIO_CHUNK", "AUDIO_COMPLETE"}
               => /\ wire[l][k].call \in 1..Len(calls)
                  /\ calls[wire[l][k].call].link = l)
    /\ \A c \in CallIds :
           (Len(calls) >= c) ~> (Len(calls) >= c /\ calls[c].pc = "done")

\* C28 witness: a call started by a file selection, for a payload whose
\* chunk count is a multiple of the batch length (the loop awaits the timer
\* after the last chunk, before the sentinel), has ended with metadata,
\* every chunk and the sentinel on the link.
C28_Witness ==
    \E c \in 1..Len(calls) :
        /\ ~calls[c].join
        /\ calls[c].pc = "done"
        /\ Len(calls[c].chunks) = 3 * YIELD_EVERY
        /\ Len(TransferSentBy(c)) = 3 * YIELD_EVERY + 2
        /\ TransferSentBy(c)[3 * YIELD_EVERY + 2].type = "AUDIO_COMPLETE"
        /\ TransferSentBy(c)[3 * YIELD_EVERY + 1].chunkIndex = 3 * YIELD_EVERY - 1

\* C29 (as claimed): when destroy() has run, the continuous-sync timer and
\* every probe timeout are cancelled, the sample ring is empty, the
\* connection is closed and out of the link table, and no chunk storage, no
\* transfer metadata and no queued playback intent remains.
C29_DestroyLeavesNothing ==
    [][Destroy =>
          /\ intervalId' = Null /\ intervals' = {}
          /\ timeouts' = {}
          /\ samples' = <<>>
          /\ ~connected'
          /\ audioChunks' = Null
          /\ audioMeta' = Null
          /\ pendingPlaybackState' = Null]_vars

\* C30 (as claimed): whenever the playback state is loading, it later is
\* something else, also when the link closes or the sender sends no more.
C30_LoadingIsLeft ==
    (playbackState = "loading") ~> (playbackState # "loading")

\* The guest is between the metadata of a transfer and the handing of its
\* payload to the audio pipeline.
StillLoading ==
    /\ playbackState = "loading"
    /\ audioMeta # Null /\ audioChunks # Null
    /\ handoffs = <<>>

\* C31 (as claimed): a play instruction handled while a transfer's payload
\* is still loading is not applied to the audio pipeline (no schedulePlay
\* call, the state does not become playing) but queued, for the first
\* transfer and for one that follows a payload already loaded.
C31_NoPlayWhileLoading ==
    [][(/\ StillLoading
        /\ net # {}
        /\ Oldest.type = "SCHEDULE_PLAY"
        /\ net' = net \ {Oldest})
       => /\ lastPlay' = lastPlay
          /\ player' = player
          /\ playbackState' = "loading"
          /\ pendingPlaybackState' = Some(queuedPlay(Oldest))]_vars

\* the guest handles the oldest message on its link and that message has the
\* given type
Handled(type) ==
    /\ net # {}
    /\ Oldest.type = type
    /\ net' = net \ {Oldest}

\* C32 (as claimed): the guest's playback state enters paused only from
\* playing -- a pause handled while stopped or loading leaves the state as
\* it was -- and a stop handled in any state leaves it stopped.
C32_PausedOnlyFromPlaying ==
    [][/\ (playbackState' = "paused" /\ playbackState # "paused")
             => playbackState = "playing"
       /\ (Handled("SCHEDULE_PAUSE") /\ playbackState \in {"stopped", "loading"})
             => playbackState' = playbackState
       /\ Handled("SCHEDULE_STOP") => playbackState' = "stopped"]_vars

\* the host's grantMaster(g) has just run: one more GRANT_MASTER naming g is
\* in flight from the host to g
Granted(g) ==
    /\ chan'[<<"host", g>>] =
          Append(chan[<<"host", g>>], [type |-> "GRANT_MASTER", peerId |-> g])

\* C33: the protocol does not keep a single master.  A grant to one guest
\* sends nothing to any other guest and leaves every other guest's flag as
\* it is, and a guest's flag, once true, goes back to false only when that
\* guest handles a REVOKE_MASTER; so grants to different guests accumulate
\* holders of the flag (the witness has two).
C33_GrantsAccumulateMasters ==
    [][/\ \A g \in Guests :
             Granted(g) =>
                \A o \in Guests \ {g} :
                   /\ isMaster'[o] = isMaster[o]
                   /\ chan'[<<"host", o>>] = chan[<<"host", o>>]
       /\ \A g \in Guests :
             isMaster[g] /\ ~isMaster'[g] =>
                \E q \in Participants : Handles(g, q, {"REVOKE_MASTER"})]_vars

\* C33 witness: after grants to g1 and to g2, both handled, two participants
\* hold the master flag at once.
C33_Witness ==
    /\ isMaster["g1"] /\ isMaster["g2"]
    /\ \A pair \in Pairs : chan[pair] = <<>>

\* guest g, holding the master flag, has issued a command from its own
\* controls and is in the given playback state because of it
IssuedByMaster(g, state) ==
    /\ isMaster[g]
    /\ mPlayback[g] = state
    /\ mEngine[g] # Null
    /\ mEngine[g][1].from = "local" /\ mEngine[g][1].asMaster

\* C34 (as claimed): when a guest holding the master flag issues play, pause
\* or stop while the host and both guests are connected with a payload
\* loaded, every participant eventually applies the command: all of them end
\* in the playback state of the guest that issued it.
C34_MasterGuestCommandReachesAll ==
    \A g \in Guests, state \in {"playing", "paused", "stopped"} :
       (/\ IssuedByMaster(g, state)
        /\ table = Guests
        /\ \A p \in Participants : mLoaded[p])
       ~> (\A p \in Participants : mPlayback[p] = state)

\* a play is queued on the guest, whose first payload is not loaded yet, and
\* the guest has since handled a pause or a stop: the host, whose commands
\* arrive in the order sent, is paused or stopped and none of its commands or
\* snapshots is still in flight
StopAfterQueuedPlay ==
    /\ ~isReady
    /\ pendingPlaybackState # Null /\ pendingPlaybackState[1].isPlaying
    /\ hostPlayback \in {"paused", "stopped"}
    /\ \A m \in net : m.type \notin {"SCHEDULE_PLAY", "SCHEDULE_PAUSE",
                                     "SCHEDULE_STOP", "PLAYBACK_STATE"}

\* C35 (as claimed): a stop or pause received after a play was queued and
\* before the payload has loaded wins over the queued play: when the decode
\* completes and the payload is ready, playback does not start.
C35_LastControlWins ==
    [][StopAfterQueuedPlay /\ Len(decoding') < Len(decoding)
       => /\ playbackState' # "playing"
          /\ player' # "started"]_vars

\* the metadata of a new transfer has been handled while the decode of an
\* earlier transfer is still in flight: the open session belongs to none of
\* the payloads being decoded
NewSessionDuringDecode ==
    /\ SessionOpen
    /\ decoding # <<>>
    /\ playbackState = "loading"
    /\ \A i \in 1..Len(decoding) :
          decoding[i].savedMeta.name # audioMeta[1].name

\* C36 (as claimed): when the decode of an earlier transfer completes, by
\* success or by failure, while the session of a newer transfer is open, the
\* newer session and its metadata are kept and the state stays loading.
C36_EarlierDecodeSparesNewSession ==
    [][NewSessionDuringDecode /\ Len(decoding') < Len(decoding)
       => /\ audioMeta' = audioMeta
          /\ audioChunks' = audioChunks
          /\ playbackState' = "loading"]_vars

\* the transfer a payload byte was cut from (Payload numbers the bytes of
\* transfer t from 16 * t + 1)
TransferOf(byte) == byte \div 16

OneTransferOnly(buffer) ==
    \A i \in 1..Len(buffer), j \in 1..Len(buffer) :
       TransferOf(buffer[i]) = TransferOf(buffer[j])

\* C37 (as claimed): with streams to the same link overlapping, every
\* payload handed to the audio pipeline consists of chunks of one single
\* transfer.
C37_PayloadOfOneTransfer ==
    /\ \A i \in 1..Len(handoffs) : OneTransferOnly(handoffs[i].buffer)
    /\ \A i \in 1..Len(decoding) : OneTransferOnly(decoding[i].buffer)

\* C38 (as claimed): a play instruction sets the playback state to playing
\* only if the audio pipeline was actually told to start: the guest that
\* handled a SCHEDULE_PLAY, and the master that broadcast it, are in state
\* playing only if their schedulePlay called player.start.
C38_PlayingOnlyIfStarted ==
    /\ playbackState = "playing" => sched["G"].called /\ sched["G"].started
    /\ hostPlayback = "playing" => sched["M"].called /\ sched["M"].started

\* initAsGuest has rejected to its caller, every attempt having run into its
\* 3000 ms timeout
RejectedByTimeouts ==
    /\ rPc = "rejected"
    /\ outcome = Some([kind |-> "error", what |-> "timeout"])
    /\ Len(tries) = maxRetries + 1
    /\ \A k \in 1..Len(tries) : tries[k].timer = "fired"

\* C39 (as claimed): once initAsGuest has rejected with the terminal error,
\* every attempt having timed out, no later event makes the status
\* connected, registers a link to the host or starts a clock sync.
C39_NothingAfterTerminalError ==
    [][RejectedByTimeouts
       => /\ status' # "connected"
          /\ "host" \notin conns'["g1"]
          /\ starts' = starts
          /\ running' = running]_vars

\* the clock sync was started on the guest's link and that link has closed
SyncLinkClosed ==
    /\ starts > 0
    /\ \E k \in 1..Len(tries) : tries[k].conn = "closed"
    /\ ~LinkIsOpen

\* C40 (as claimed): after the guest's link to the host has closed, the
\* continuous sync for it has stopped: no further probe is made, no further
\* sync request is sent and no further offset update is applied.
C40_SyncStopsWithLink ==
    [][SyncLinkClosed /\ SyncLinkClosed'
       => /\ probes' = probes
          /\ sReq' \subseteq sReq
          /\ samples' = samples
          /\ estimate' = estimate]_vars


====
